---- MODULE Spec2Model ----
(***************************************************************************)
(* grafik-all: the GraphQL node tree (graphql.py) and its text codec       *)
(* (parseql.py).                                                           *)
(*                                                                         *)
(* Text is a sequence of one-character strings.  Objects live in a heap:   *)
(* a sequence of node records, an object's identity being its index.      *)
(* A python call that raises is an operator result whose err field names   *)
(* the exception; the heap of that result holds whatever the call had      *)
(* already written when it raised.                                         *)
(***************************************************************************)
EXTENDS Integers, Sequences, FiniteSets, TLC

VARIABLES heap, tmpl, last, ret, steps

vars == <<heap, tmpl, last, ret, steps>>

(***************************************************************************)
(* Text helpers: python str methods used by the source.                    *)
(***************************************************************************)
Digits == <<"0", "1", "2", "3", "4", "5", "6", "7", "8", "9">>

DigitSet == {Digits[i] : i \in 1..10}

LetterSet == {"a", "b", "c", "d", "e", "f", "g", "h", "i", "j", "k", "l", "m",
              "n", "o", "p", "q", "r", "s", "t", "u", "v", "w", "x", "y", "z",
              "A", "B", "C", "D", "E", "F", "G", "H", "I", "J", "K", "L", "M",
              "N", "O", "P", "Q", "R", "S", "T", "U", "V", "W", "X", "Y", "Z"}

\* regex class \w
WordSet == LetterSet \cup DigitSet \cup {"_"}

\* what str.strip() removes
SpaceSet == {" ", "\n", "\t"}

RECURSIVE LStrip(_, _)
LStrip(t, cs) == IF t # <<>> /\ Head(t) \in cs THEN LStrip(Tail(t), cs) ELSE t

RECURSIVE RStrip(_, _)
RStrip(t, cs) ==
    IF t # <<>> /\ t[Len(t)] \in cs THEN RStrip(SubSeq(t, 1, Len(t) - 1), cs) ELSE t

\* str.strip()
Strip(t) == RStrip(LStrip(t, SpaceSet), SpaceSet)

\* str[::-1]
Reverse(t) == [i \in 1..Len(t) |-> t[Len(t) + 1 - i]]

\* str.startswith(p)
StartsWith(t, p) == Len(p) <= Len(t) /\ SubSeq(t, 1, Len(p)) = p

\* str.split(c): the pieces between the occurrences of the character c
RECURSIVE SplitAcc(_, _, _, _)
SplitAcc(t, c, cur, acc) ==
    IF t = <<>> THEN Append(acc, cur)
    ELSE IF Head(t) = c THEN SplitAcc(Tail(t), c, <<>>, Append(acc, cur))
    ELSE SplitAcc(Tail(t), c, Append(cur, Head(t)), acc)

Split(t, c) == SplitAcc(t, c, <<>>, <<>>)

\* sep.join(parts)
RECURSIVE Join(_, _)
Join(parts, sep) ==
    IF parts = <<>> THEN <<>>
    ELSE IF Len(parts) = 1 THEN parts[1]
    ELSE parts[1] \o sep \o Join(Tail(parts), sep)

\* ''.join(parts)
Concat(parts) == Join(parts, <<>>)

\* str.isidentifier() on the ASCII alphabet
IsIdentifier(t) ==
    /\ t # <<>>
    /\ \A i \in 1..Len(t) : t[i] \in WordSet
    /\ t[1] \notin DigitSet

\* str.isdigit() / str.isnumeric() on the ASCII alphabet
IsDigit(t) == t # <<>> /\ \A i \in 1..Len(t) : t[i] \in DigitSet

\* str(n) for a natural number
RECURSIVE IntToText(_)
IntToText(n) ==
    IF n < 10 THEN <<Digits[n + 1]>>
    ELSE Append(IntToText(n \div 10), Digits[(n % 10) + 1])

DigitValue(c) == CHOOSE i \in 0..9 : Digits[i + 1] = c

\* int(t) for a text of digits
RECURSIVE TextToInt(_)
TextToInt(t) ==
    IF t = <<>> THEN 0
    ELSE 10 * TextToInt(SubSeq(t, 1, Len(t) - 1)) + DigitValue(t[Len(t)])


(***************************************************************************)
(* Values of the data model.                                               *)
(*   item  : a child, a bare string or a reference to a node object; an    *)
(*           "int" item stands for a child of any other python type;       *)
(*   value : an argument value (str, int, bool, GraphQLEnum, GraphQLNode); *)
(*   opt   : None or a python value.                                       *)
(***************************************************************************)
StrItem(s) == [t |-> "str", s |-> s, n |-> 0]

NodeItem(id) == [t |-> "node", s |-> <<>>, n |-> id]

IntItem(n) == [t |-> "int", s |-> <<>>, n |-> n]

VStr(s) == [t |-> "str", s |-> s, n |-> 0]

VInt(n) == [t |-> "int", s |-> <<>>, n |-> n]

VBool(b) == [t |-> "bool", s |-> <<>>, n |-> IF b THEN 1 ELSE 0]

VEnum(s) == [t |-> "enum", s |-> s, n |-> 0]

VNode(id) == [t |-> "node", s |-> <<>>, n |-> id]

None == [some |-> FALSE, v |-> <<>>]

Some(x) == [some |-> TRUE, v |-> x]

\* **kwargs of a call: the special parameters and, in call order, the others
NoKw == [node |-> 0, valid_params |-> None, valid_items |-> None,
         gid_path |-> None, kv |-> <<>>]

KwArgs(kv) == [NoKw EXCEPT !.kv = kv]

\* python's "if kwargs:"
KwTruthy(kw) ==
    \/ kw.node # 0
    \/ kw.valid_params.some
    \/ kw.valid_items.some
    \/ kw.gid_path.some
    \/ kw.kv # <<>>

\* GraphQLNode.__init__: the attributes set before self.add(*args, **kwargs).
\* cls and node are the subclass of the object and NodesQL's self.node.
InitNode(name, alias) ==
    [name |-> name, alias |-> alias, params |-> <<>>, items |-> <<>>,
     nude |-> FALSE, constant |-> FALSE, valid_params |-> None,
     valid_items |-> None, gid_path |-> <<>>, cls |-> "GraphQLNode", node |-> 0]

\* the result of a call: the heap it leaves and the exception it raised, if any
Ok(h) == [h |-> h, err |-> ""]

Raise(h, e) == [h |-> h, err |-> e]

\* the exceptions of graphql.py, by type and message
ErrName == "TypeError: _name must be alphanumeric"

ErrConst == "TypeError: Cannot update a const!"

ErrType == "TypeError: Invalid type for item"

ErrItem == "ValueError: Item is not valid"

ErrParam == "ValueError: Parameter is not valid"

(***************************************************************************)
(* GraphQLNode.name, __eq__, __hash__                                      *)
(***************************************************************************)
NA(name, alias) == [name |-> name, alias |-> alias]

NodeNA(h, id) == NA(h[id].name, h[id].alias)

\* GraphQLNode.__init__: how a name string splits into name and alias
CtorNA(text, alias) ==
    LET split_name == [i \in 1..Len(Split(text, ":")) |-> Strip(Split(text, ":")[i])]
        other_alias == Concat(SubSeq(split_name, 1, Len(split_name) - 1))
    IN  NA(split_name[Len(split_name)], IF alias # <<>> THEN alias ELSE other_alias)

\* GraphQLNode.__eq__: how the other operand, a string, splits
EqStrNA(text) ==
    LET n == Split(text, ":")
    IN  NA(Strip(n[Len(n)]), IF Len(n) > 1 THEN Strip(n[Len(n) - 1]) ELSE <<>>)

\* GraphQLNode.name(): the identifier the node shows in a response
node_name(na) == IF na.alias = <<>> THEN na.name ELSE na.alias

\* GraphQLNode.__eq__ on self and the other operand's name and alias
NodeEq(self, other) ==
    IF self.alias # <<>> /\ other.alias # <<>> THEN self.alias = other.alias
    ELSE IF /\ self.name # <<>>
            /\ other.name # <<>>
            /\ (self.alias # <<>> \/ other.alias # <<>>)
         THEN self.alias = other.name \/ self.name = other.alias
    ELSE self.name = other.name

\* GraphQLNode.__hash__: hash(self.name()); the hash of a string is modelled
\* by the string, so equal hashes are equal display names
hash(na) == node_name(na)

\* the name and alias GraphQLNode.__eq__ reads off its other operand
OtherNA(h, item) ==
    IF item.t = "str" THEN EqStrNA(item.s)
    ELSE IF item.t = "node" THEN NodeNA(h, item.n)
    ELSE NA(<<>>, <<>>)

\* python's el == item for an element el of a list of children or of names:
\* identity, str.__eq__, GraphQLNode.__eq__ or its reflection
ItemEq(h, el, item) ==
    IF el.t = "node" /\ item.t = "node" /\ el.n = item.n THEN TRUE
    ELSE IF el.t = "str" /\ item.t = "str" THEN el.s = item.s
    ELSE IF el.t = "node" THEN NodeEq(NodeNA(h, el.n), OtherNA(h, item))
    ELSE IF item.t = "node" THEN NodeEq(NodeNA(h, item.n), OtherNA(h, el))
    ELSE FALSE

\* el == i for a GraphQLNode i that is not a child of anything (name, alias na)
ItemEqNA(h, el, na) ==
    IF el.t = "node" THEN NodeEq(NodeNA(h, el.n), na)
    ELSE NodeEq(na, OtherNA(h, el))

\* list.index under ==, 0 when no element is equal
IndexOf(h, list, item) ==
    IF \E i \in 1..Len(list) : ItemEq(h, list[i], item)
    THEN CHOOSE i \in 1..Len(list) :
            /\ ItemEq(h, list[i], item)
            /\ \A j \in 1..(i - 1) : ~ItemEq(h, list[j], item)
    ELSE 0

IndexOfNA(h, list, na) ==
    IF \E i \in 1..Len(list) : ItemEqNA(h, list[i], na)
    THEN CHOOSE i \in 1..Len(list) :
            /\ ItemEqNA(h, list[i], na)
            /\ \A j \in 1..(i - 1) : ~ItemEqNA(h, list[j], na)
    ELSE 0

RemoveAt(list, i) == SubSeq(list, 1, i - 1) \o SubSeq(list, i + 1, Len(list))


(***************************************************************************)
(* GraphQLNode._get_gid                                                    *)
(***************************************************************************)
GidMarker == <<"g", "i", "d", ":", "/", "/">>

\* str(v) of an argument value
ValueText(v) ==
    IF v.t = "int" THEN IntToText(v.n)
    ELSE IF v.t = "bool" THEN (IF v.n = 1 THEN <<"T", "r", "u", "e">>
                               ELSE <<"F", "a", "l", "s", "e">>)
    ELSE v.s

\* a variant of the loop of _get_gid that never stops accumulating: every
\* non-empty segment of the base path is kept
GidPrefixAll(prefixes, idText, prefix) ==
    Join(SelectSeq(prefixes, LAMBDA x : x # <<>>), <<"/">>)

\* the for loop of _get_gid over the segments of the base path
RECURSIVE GidPrefix(_, _, _)
GidPrefix(prefixes, idText, prefix) ==
    IF prefixes = <<>> THEN prefix
    ELSE LET segment == Head(prefixes)
         IN  IF segment = <<>> THEN GidPrefix(Tail(prefixes), idText, prefix)
             ELSE IF StartsWith(idText, segment) THEN prefix
             ELSE GidPrefix(Tail(prefixes), idText,
                            IF prefix # <<>> THEN prefix \o <<"/">> \o segment
                            ELSE segment)

get_gid(gid_path, id) ==
    IF StartsWith(ValueText(id), GidMarker) THEN id
    ELSE LET prefix == GidPrefix(Split(gid_path, "/"), ValueText(id), <<>>)
             joined == IF prefix = <<>> THEN ValueText(id)
                       ELSE prefix \o <<"/">> \o ValueText(id)
         IN  VStr(GidMarker \o joined)

(***************************************************************************)
(* GraphQLNode.matching_gid                                                *)
(***************************************************************************)
\* [x for x in text.split('/') if x]
Segments(text) == SelectSeq(Split(text, "/"), LAMBDA x : x # <<>>)

GidTag == <<"g", "i", "d", ":">>

\* 'gid:' in other_id
HasGidTag(other_id) == \E i \in 1..Len(other_id) : other_id[i] = GidTag

\* other_id.remove('gid:'): the first occurrence is removed
RemoveGidTag(other_id) ==
    RemoveAt(other_id, CHOOSE i \in 1..Len(other_id) :
                          /\ other_id[i] = GidTag
                          /\ \A j \in 1..(i - 1) : other_id[j] # GidTag)

\* a variant of the loop below that never asks for the full path
RECURSIVE MatchLoopPartial(_, _, _)
MatchLoopPartial(my_id, other_id, needs_full_id) ==
    IF my_id = <<>> THEN TRUE
    ELSE IF other_id # <<>> /\ other_id[Len(other_id)] # my_id[Len(my_id)] THEN FALSE
    ELSE MatchLoopPartial(SubSeq(my_id, 1, Len(my_id) - 1),
                          SubSeq(other_id, 1, Len(other_id) - 1), needs_full_id)

\* the for loop of matching_gid over reversed(my_id): FALSE when it returns ''
RECURSIVE MatchLoop(_, _, _)
MatchLoop(my_id, other_id, needs_full_id) ==
    IF my_id = <<>> THEN TRUE
    ELSE IF other_id = <<>> /\ needs_full_id THEN FALSE
    ELSE IF other_id # <<>> /\ other_id[Len(other_id)] # my_id[Len(my_id)] THEN FALSE
    ELSE MatchLoop(SubSeq(my_id, 1, Len(my_id) - 1),
                   SubSeq(other_id, 1, Len(other_id) - 1), needs_full_id)

\* matching_gid once 'gid:' is removed from other_id
MatchTail(my_id, other_id, needs_full_id) ==
    IF other_id = <<>> THEN <<>>
    ELSE IF ~MatchLoop(my_id, SubSeq(other_id, 1, Len(other_id) - 1), needs_full_id)
    THEN <<>>
    ELSE IF IsDigit(other_id[Len(other_id)]) THEN other_id[Len(other_id)]
    ELSE <<>>

\* matching_gid, other the text str(other)
matching_gid(gid_path, other) ==
    IF HasGidTag(Segments(other))
    THEN MatchTail(Segments(gid_path), RemoveGidTag(Segments(other)), TRUE)
    ELSE MatchTail(Segments(gid_path), Segments(other), FALSE)

(***************************************************************************)
(* The argument map: a python dict, keys in insertion order.               *)
(***************************************************************************)
HasKey(params, k) == \E i \in 1..Len(params) : params[i].k = k

KeyIndex(params, k) == CHOOSE i \in 1..Len(params) : params[i].k = k

\* params[k] = v
SetKey(params, k, v) ==
    IF HasKey(params, k)
    THEN [params EXCEPT ![KeyIndex(params, k)] = [k |-> k, v |-> v]]
    ELSE Append(params, [k |-> k, v |-> v])

GetKey(params, k) == params[KeyIndex(params, k)].v

(***************************************************************************)
(* GraphQLNode.add, _add_params, _add_items, _drop                         *)
(***************************************************************************)
\* the for loop of _add_params over the ordinary parameters
RECURSIVE AddParamsLoop(_, _, _)
AddParamsLoop(h, self, kv) ==
    IF kv = <<>> THEN Ok(h)
    ELSE LET i == LStrip(Head(kv).k, {"_"})
             v == IF i = <<"i", "d">> THEN get_gid(h[self].gid_path, Head(kv).v)
                  ELSE Head(kv).v
         IN  IF /\ h[self].valid_params.some
                /\ \A j \in 1..Len(h[self].valid_params.v) : h[self].valid_params.v[j] # i
             THEN Raise(h, ErrParam)
             ELSE AddParamsLoop([h EXCEPT ![self].params = SetKey(@, i, v)],
                                self, Tail(kv))

add_params(h, self, kw) ==
    LET h1 == IF kw.node # 0
              THEN [h EXCEPT ![self].nude = TRUE, ![self].items = <<NodeItem(kw.node)>>]
              ELSE h
        h2 == [h1 EXCEPT
                 ![self].valid_params = IF kw.valid_params.some THEN kw.valid_params ELSE @,
                 ![self].valid_items = IF kw.valid_items.some THEN kw.valid_items ELSE @,
                 ![self].gid_path = IF kw.gid_path.some THEN kw.gid_path.v ELSE <<>>]
    IN  AddParamsLoop(h2, self, kw.kv)

\* the second comparison of _drop, of every child with GraphQLNode(item) of
\* name and alias na: the first equal child, at index j, is removed
DropAsNode(h, self, na, j) ==
    IF na.name # <<>> /\ ~IsIdentifier(na.name) THEN Raise(h, ErrName)
    ELSE IF j # 0 THEN Ok([h EXCEPT ![self].items = RemoveAt(@, j)])
    ELSE Ok(h)

\* _drop, i the index of the first child equal to item (0 when there is none)
DropAt(h, self, item, i) ==
    IF i # 0 THEN Ok([h EXCEPT ![self].items = RemoveAt(@, i)])
    ELSE IF item.t = "str"
    THEN DropAsNode(h, self, CtorNA(item.s, <<>>),
                    IndexOfNA(h, h[self].items, CtorNA(item.s, <<>>)))
    ELSE Ok(h)

\* _drop: the first child equal to item is removed; a string that no child is
\* equal to is compared again as GraphQLNode(item), which raises on a bad name
drop(h, self, item) == DropAt(h, self, item, IndexOf(h, h[self].items, item))

\* a variant of NotInValidItems: children validated by field name, the alias ignored
NotInValidItemsByField(h, valid, item) ==
    \A j \in 1..Len(valid) : valid[j] # OtherNA(h, item).name

\* "item not in self._valid_items"
NotInValidItems(h, valid, item) ==
    \A j \in 1..Len(valid) : ~ItemEq(h, StrItem(valid[j]), item)

RECURSIVE add(_, _, _, _)
RECURSIVE add_items(_, _, _)
RECURSIVE AddItemsLoop(_, _, _)

\* self._items.append(item) and the next iteration, unless _drop raised
AppendItem(d, self, args) ==
    IF d.err # "" THEN d
    ELSE AddItemsLoop([d.h EXCEPT ![self].items = Append(@, Head(args))], self, Tail(args))

AddItemsLoop(h, self, args) ==
    IF args = <<>> THEN Ok(h)
    ELSE IF h[self].valid_items.some /\ NotInValidItems(h, h[self].valid_items.v, Head(args))
    THEN Raise(h, ErrItem)
    ELSE IF Head(args).t \in {"str", "node"}
    THEN AppendItem(drop(h, self, Head(args)), self, args)
    ELSE Raise(h, ErrType)

add_items(h, self, args) ==
    IF h[self].nude THEN add(h, h[self].items[1].n, args, NoKw)
    ELSE AddItemsLoop(h, self, args)

\* "if args: self._add_items(*args)", reached unless _add_params raised
AddArgsAfter(p, self, args) ==
    IF p.err # "" THEN p
    ELSE IF args # <<>> THEN add_items(p.h, self, args)
    ELSE p

add(h, self, args, kw) ==
    IF h[self].constant THEN Raise(h, ErrConst)
    ELSE AddArgsAfter(IF KwTruthy(kw) THEN add_params(h, self, kw) ELSE Ok(h), self, args)

\* the outcome of a constructor: when it raises no object is left
Constructed(h, r) ==
    IF r.err # "" THEN Raise(SubSeq(r.h, 1, Len(h)), r.err) ELSE r

\* __init__ once _name is split into name and alias na
NewNamed(h, na, args, kw) ==
    IF na.name # <<>> /\ ~IsIdentifier(na.name) THEN Raise(h, ErrName)
    ELSE Constructed(h, add(Append(h, InitNode(na.name, na.alias)), Len(h) + 1, args, kw))

\* GraphQLNode(_name, *args, _alias=alias, **kwargs): the new object is the
\* last of the heap
New(h, text, alias, args, kw) == NewNamed(h, CtorNA(text, alias), args, kw)


(***************************************************************************)
(* GraphQLNode.items, params, __getitem__, add_to_all, update, first, after*)
(***************************************************************************)
RECURSIVE items(_, _)
items(h, self) ==
    IF h[self].nude THEN items(h, h[self].items[1].n) ELSE h[self].items

RECURSIVE params(_, _)
params(h, self) ==
    IF h[self].nude THEN params(h, h[self].items[1].n) ELSE h[self].params

RECURSIVE AddToAllLoop(_, _, _, _, _)

\* the next iteration of the for loop of add_to_all, unless item.add raised
AddToAllNext(r, self, idx, args, kw) ==
    IF r.err # "" THEN r ELSE AddToAllLoop(r.h, self, idx + 1, args, kw)

\* the for loop of add_to_all over self._items
AddToAllLoop(h, self, idx, args, kw) ==
    IF idx > Len(h[self].items) THEN Ok(h)
    ELSE IF h[self].items[idx].t # "node" THEN AddToAllLoop(h, self, idx + 1, args, kw)
    ELSE AddToAllNext(add(h, h[self].items[idx].n, args, kw), self, idx, args, kw)

\* a variant of add_to_all that adds to the node itself
add_to_self(h, self, args, kw) == add(h, self, args, kw)

add_to_all(h, self, args, kw) ==
    IF h[self].constant THEN Raise(h, ErrConst)
    ELSE AddToAllLoop(h, self, 1, args, kw)

\* python truthiness of a child: an empty string is false
Truthy(item) == ~(item.t = "str" /\ item.s = <<>>)

RECURSIVE update(_, _, _)
RECURSIVE UpdateLoop(_, _, _, _)

\* the next iteration of the for loop of update, unless the last one raised
UpdateNext(r, self, other, idx) ==
    IF r.err # "" THEN r ELSE UpdateLoop(r.h, self, other, idx + 1)

\* one iteration of the for loop of update: i is the child of other, e the
\* index of existing in self._items (0 when existing is the default None)
UpdateItem(h, self, other, idx, i, e) ==
    IF e # 0 /\ Truthy(h[self].items[e]) /\ h[self].items[e].t = "node"
    THEN IF i.t = "node"
         THEN UpdateNext(update(h, h[self].items[e].n, i.n), self, other, idx)
         ELSE UpdateLoop(h, self, other, idx + 1)
    ELSE UpdateNext(add(h, self, <<i>>, NoKw), self, other, idx)

\* the for loop of update over other.items(), read from the list as it is at
\* each iteration; existing is self.__getitem__(i, default=None)
UpdateLoop(h, self, other, idx) ==
    IF idx > Len(items(h, other)) THEN Ok(h)
    ELSE UpdateItem(h, self, other, idx, items(h, other)[idx],
                    IndexOf(h, h[self].items, items(h, other)[idx]))

\* self.add(**other.params()), unless the merge of the children raised
UpdateParams(r, self, other) ==
    IF r.err # "" THEN r ELSE add(r.h, self, <<>>, KwArgs(params(r.h, other)))

update(h, self, other) ==
    IF h[self].constant THEN Raise(h, ErrConst)
    ELSE UpdateParams(IF h[self].nude THEN update(h, h[self].items[1].n, other)
                      ELSE UpdateLoop(h, self, other, 1),
                      self, other)

first(h, self, n) ==
    IF h[self].constant THEN Raise(h, ErrConst)
    ELSE add(h, self, <<>>, KwArgs(<<[k |-> <<"f", "i", "r", "s", "t">>, v |-> VInt(n)]>>))

after(h, self, v) ==
    IF h[self].constant THEN Raise(h, ErrConst)
    ELSE add(h, self, <<>>, KwArgs(<<[k |-> <<"a", "f", "t", "e", "r">>, v |-> v]>>))

\* the node objects that are children of a node
Children(h, x) ==
    {h[x].items[j].n : j \in {k \in 1..Len(h[x].items) : h[x].items[k].t = "node"}}

\* the node objects reachable from the nodes of frontier, themselves included
RECURSIVE Reach(_, _, _)
Reach(h, frontier, seen) ==
    IF frontier \subseteq seen THEN seen
    ELSE Reach(h, UNION {Children(h, x) : x \in frontier}, seen \cup frontier)

Tree(h, x) == Reach(h, {x}, {})

(***************************************************************************)
(* Serializer: _param_to_graphql_rep, _params_to_string, _items_to_string, *)
(* _to_string, __repr__, pretty                                            *)
(***************************************************************************)
\* ' ' * n
Spaces(n) == IF n <= 0 THEN <<>> ELSE [i \in 1..n |-> " "]

RECURSIVE param_to_graphql_rep(_, _)
RECURSIVE params_to_string(_, _)

param_to_graphql_rep(h, item) ==
    IF item.t = "str" THEN <<"\"">> \o item.s \o <<"\"">>
    ELSE IF item.t = "bool" THEN (IF item.n = 1 THEN <<"t", "r", "u", "e">>
                                  ELSE <<"f", "a", "l", "s", "e">>)
    ELSE IF item.t = "node" THEN <<"{", " ">> \o params_to_string(h, item.n) \o <<" ", "}">>
    ELSE ValueText(item)

params_to_string(h, self) ==
    Join([i \in 1..Len(h[self].params) |->
             h[self].params[i].k \o <<":", " ">>
                \o param_to_graphql_rep(h, h[self].params[i].v)],
         <<",", " ">>)

RECURSIVE to_string(_, _, _, _, _, _)

\* a variant of _items_to_string that renders every child with its own name
\* and braces, also under a transparent node
items_to_string_named(h, self, indentation, size, separator) ==
    LET spaces == Spaces(indentation)
        next_indentation == IF indentation > 0 THEN indentation + 2 ELSE 0
    IN  [i \in 1..Len(h[self].items) |->
            IF h[self].items[i].t # "node" THEN spaces \o h[self].items[i].s
            ELSE to_string(h, h[self].items[i].n, next_indentation, size, separator,
                           FALSE)]

items_to_string(h, self, indentation, size, separator) ==
    LET spaces == Spaces(indentation)
        next_indentation == IF indentation > 0 THEN indentation + 2 ELSE 0
    IN  [i \in 1..Len(h[self].items) |->
            IF h[self].items[i].t # "node" THEN spaces \o h[self].items[i].s
            ELSE to_string(h, h[self].items[i].n, next_indentation, size, separator,
                           h[self].nude)]

to_string(h, self, indentation0, size, separator, nude) ==
    LET spaces == Spaces(indentation0 - size)
        indentation == IF nude THEN indentation0 - size ELSE indentation0
        field0 == IF nude THEN <<>>
                  ELSE IF h[self].alias # <<>>
                  THEN h[self].alias \o <<":", " ">> \o h[self].name
                  ELSE h[self].name
        field1 == IF h[self].params # <<>> /\ ~nude
                  THEN field0 \o <<"(">> \o params_to_string(h, self) \o <<")">>
                  ELSE field0
        field2 == IF field1 # <<>> THEN field1 \o <<" ">> ELSE field1
        field3 == IF ~nude THEN field2 \o <<"{">> ELSE field2
        lines == IF h[self].items # <<>>
                 THEN (IF field3 # <<>> THEN <<spaces \o field3>> ELSE <<>>)
                      \o items_to_string(h, self, indentation, size, separator)
                      \o (IF ~nude THEN <<spaces \o <<"}">>>> ELSE <<>>)
                 ELSE <<spaces \o field1>>
    IN  Join(lines, separator)

\* __repr__, str(node)
repr(h, self) == to_string(h, self, 0, 2, <<" ">>, FALSE)

pretty(h, self, indentation) == to_string(h, self, indentation, indentation, <<"\n">>, FALSE)


(***************************************************************************)
(* The state machine.  heap holds the node objects, tmpl the AutoNode      *)
(* templates, last the latest call (its operation, receiver, arguments and *)
(* the exception it raised), ret the object the call returned, steps the   *)
(* number of calls made.                                                   *)
(***************************************************************************)
MaxSteps == 3

Call(op, self, other, args, kw, err) ==
    [op |-> op, self |-> self, other |-> other, args |-> args, kw |-> kw, err |-> err]

NoCall == Call("init", 0, 0, <<>>, NoKw, "")

\* no node object is its own descendant
Acyclic(h) == \A x \in 1..Len(h) : x \notin Reach(h, Children(h, x), {})

\* the node objects an argument list and a kwargs name
ArgNodes(args, kw) ==
    {args[i].n : i \in {j \in 1..Len(args) : args[j].t = "node"}}
        \cup (IF kw.node # 0 THEN {kw.node} ELSE {})

\* what a call returned: an object, a truth value or a text
Ret(id, b, out) == [id |-> id, b |-> b, out |-> out]

NoRet == Ret(0, FALSE, <<>>)

Done(r, c, id) ==
    /\ Acyclic(r.h)
    /\ heap' = r.h
    /\ last' = c
    /\ ret' = Ret(id, FALSE, <<>>)
    /\ steps' = steps + 1
    /\ UNCHANGED tmpl

\* o = GraphQLNode(text, *args, _alias=alias, **kw)
DoNew(text, alias, args, kw) ==
    /\ steps < MaxSteps
    /\ ArgNodes(args, kw) \subseteq 1..Len(heap)
    /\ LET r == New(heap, text, alias, args, kw)
       IN  Done(r, Call("new", Len(heap) + 1, 0, args, kw, r.err),
                IF r.err = "" THEN Len(heap) + 1 ELSE 0)

\* self.add(*args, **kw)
DoAdd(self, args, kw) ==
    /\ steps < MaxSteps
    /\ ArgNodes(args, kw) \cup {self} \subseteq 1..Len(heap)
    /\ LET r == add(heap, self, args, kw)
       IN  Done(r, Call("add", self, 0, args, kw, r.err), IF r.err = "" THEN self ELSE 0)

\* self.add_to_all(*args, **kw)
DoAddToAll(self, args, kw) ==
    /\ steps < MaxSteps
    /\ ArgNodes(args, kw) \cup {self} \subseteq 1..Len(heap)
    /\ LET r == add_to_all(heap, self, args, kw)
       IN  Done(r, Call("add_to_all", self, 0, args, kw, r.err),
                IF r.err = "" THEN self ELSE 0)

\* self.update(other)
DoUpdate(self, other) ==
    /\ steps < MaxSteps
    /\ {self, other} \subseteq 1..Len(heap)
    /\ self \notin Tree(heap, other)
    /\ LET r == update(heap, self, other)
       IN  Done(r, Call("update", self, other, <<>>, NoKw, r.err), 0)

\* self.first(n)
DoFirst(self, n) ==
    /\ steps < MaxSteps
    /\ self \in 1..Len(heap)
    /\ LET r == first(heap, self, n)
       IN  Done(r, Call("first", self, 0, <<>>, NoKw, r.err), 0)

\* self.after(v)
DoAfter(self, v) ==
    /\ steps < MaxSteps
    /\ self \in 1..Len(heap)
    /\ LET r == after(heap, self, v)
       IN  Done(r, Call("after", self, 0, <<>>, NoKw, r.err), IF r.err = "" THEN self ELSE 0)

(***************************************************************************)
(* Spec: children and equality.  A leaf node is constructed first, its     *)
(* name and alias drawn from LeafNames and LeafAliases; then the node      *)
(* under test is constructed over strings and the leaf, and children are   *)
(* added to it one at a time.                                              *)
(***************************************************************************)
LeafNames == {<<>>, <<"f">>, <<"g">>}

LeafAliases == {<<>>, <<"a">>, <<"f">>}

ChildTexts == {<<"f">>, <<"a", ":", " ", "f">>, <<"b", ":", " ", "f">>,
               <<"a", ":">>, <<"b", ":">>}

\* the children a call may pass: a bare string or the leaf node
ChildItems == {StrItem(t) : t \in ChildTexts} \cup {NodeItem(1)}

ChildArgs == {<<>>} \cup {<<c>> : c \in ChildItems}
                 \cup {<<c, d>> : c \in ChildItems, d \in ChildItems}

Init ==
    /\ heap \in {New(<<>>, x[1], x[2], <<>>, NoKw).h : x \in LeafNames \X LeafAliases}
    /\ tmpl = <<>>
    /\ last = NoCall
    /\ ret = NoRet
    /\ steps = 0

Construct ==
    /\ Len(heap) = 1
    /\ \E args \in ChildArgs : DoNew(<<"n">>, <<>>, args, NoKw)

AddChild ==
    /\ Len(heap) = 2
    /\ \E c \in ChildItems : DoAdd(2, <<c>>, NoKw)

Next == Construct \/ AddChild

Spec == Init /\ [][Next]_vars


\* the latest call was a successful self.add(c) of one child on the node under test
AddedOne(c) == last.op = "add" /\ last.err = "" /\ last.self = 2 /\ last.args = <<c>>

(***************************************************************************)
(* C5: idempotent re-add.  For a node with child sequence S and a child c  *)
(* equal to some element of S, add(c) gives a sequence of the same length  *)
(* in which one element equal to c is removed and c is last, the other     *)
(* children keeping their order; and a second add(c) changes nothing.      *)
(* The claim as stated: violated when equality is not transitive (children *)
(* with an empty name and different aliases are both equal to the node     *)
(* with neither name nor alias).                                           *)
(***************************************************************************)
C5_ReaddStep(c) ==
    (AddedOne(c)' /\ IndexOf(heap, heap[2].items, c) # 0) =>
        /\ \E i \in 1..Len(heap[2].items) :
              /\ ItemEq(heap, heap[2].items[i], c)
              /\ heap'[2].items = Append(RemoveAt(heap[2].items, i), c)
        /\ add(heap', 2, <<c>>, NoKw).h[2].items = heap'[2].items

C5_IdempotentReadd == [][\A c \in ChildItems : C5_ReaddStep(c)]_vars

(***************************************************************************)
(* C6: replacing children by aliased versions, as in the repository's test *)
(* test_graphql_replace_items.  (1) adding 'A: F' to a node that holds the *)
(* bare 'F' removes 'F' and keeps the child count; (2) adding 'B: F' to a  *)
(* node that holds 'A: F' keeps both; (3) adding the bare 'F' to a node    *)
(* that holds both removes the earliest aliased form and appends 'F'.      *)
(***************************************************************************)
BareF == StrItem(<<"f">>)

AliasAF == StrItem(<<"a", ":", " ", "f">>)

AliasBF == StrItem(<<"b", ":", " ", "f">>)

Holds(list, c) == \E i \in 1..Len(list) : list[i] = c

C6_Step ==
    /\ (AddedOne(AliasAF)' /\ Holds(heap[2].items, BareF)
            /\ ~Holds(heap[2].items, AliasAF)) =>
          /\ ~Holds(heap'[2].items, BareF)
          /\ Holds(heap'[2].items, AliasAF)
          /\ Len(heap'[2].items) = Len(heap[2].items)
    /\ (AddedOne(AliasBF)' /\ Holds(heap[2].items, AliasAF)) =>
          /\ Holds(heap'[2].items, AliasAF)
          /\ Holds(heap'[2].items, AliasBF)
    /\ (AddedOne(BareF)' /\ heap[2].items = <<AliasAF, AliasBF>>) =>
          heap'[2].items = <<AliasBF, BareF>>

C6_ReplaceByAlias == [][C6_Step]_vars


(***************************************************************************)
(* SpecEq: GraphQLNode.__eq__ and __hash__ as functions.  Two nodes are    *)
(* constructed, their names and aliases drawn from LeafNames and           *)
(* LeafAliases, and compared with each other and with strings.             *)
(***************************************************************************)
EqTexts == ChildTexts \cup {<<>>, <<"g">>}

InitEq ==
    /\ heap \in {New(New(<<>>, x[1], x[2], <<>>, NoKw).h, y[1], y[2], <<>>, NoKw).h :
                    x \in LeafNames \X LeafAliases, y \in LeafNames \X LeafAliases}
    /\ tmpl = <<>>
    /\ last = NoCall
    /\ ret = NoRet
    /\ steps = 0

\* a == b for the node objects a and b
Compare ==
    \E a \in 1..Len(heap), b \in 1..Len(heap) :
        /\ steps < MaxSteps
        /\ last' = Call("eq", a, b, <<>>, NoKw, "")
        /\ ret' = Ret(0, ItemEq(heap, NodeItem(a), NodeItem(b)), <<>>)
        /\ steps' = steps + 1
        /\ UNCHANGED <<heap, tmpl>>

\* a == text for the node object a and a string
CompareStr ==
    \E a \in 1..Len(heap), text \in EqTexts :
        /\ steps < MaxSteps
        /\ last' = Call("eq", a, 0, <<StrItem(text)>>, NoKw, "")
        /\ ret' = Ret(0, ItemEq(heap, NodeItem(a), StrItem(text)), <<>>)
        /\ steps' = steps + 1
        /\ UNCHANGED <<heap, tmpl>>

NextEq == Compare \/ CompareStr

SpecEq == InitEq /\ [][NextEq]_vars

(***************************************************************************)
(* C8: node equality is display-identifier equality.  For all nodes a and  *)
(* b, a == b exactly when the display identifier of a (alias if present,   *)
(* else name) is that of b; so a == b implies hash(a) == hash(b).          *)
(* The claim as stated: violated by nodes with an empty name.              *)
(***************************************************************************)
C8_EqIsDisplayName ==
    (last.op = "eq" /\ last.other # 0) =>
        /\ ret.b <=> (node_name(NodeNA(heap, last.self)) = node_name(NodeNA(heap, last.other)))
        /\ ret.b => hash(NodeNA(heap, last.self)) = hash(NodeNA(heap, last.other))


(***************************************************************************)
(* SpecAdd: one call of add on a configured node.  A leaf node is          *)
(* constructed, then the node under test with validation lists drawn from  *)
(* ValidItemLists and ValidParamLists; add is called on it with up to two  *)
(* children and an argument.                                               *)
(***************************************************************************)
MaxAdds == 1

AddLeaves == {<<<<"f">>, <<>>>>, <<<<"f">>, <<"a">>>>, <<<<"g">>, <<"f">>>>,
              <<<<>>, <<"f">>>>}

ValidItemLists == {None, Some(<<>>), Some(<<<<"f">>>>)}

ValidParamLists == {None, Some(<<<<"x">>>>)}

AddItems == {StrItem(<<"f">>), StrItem(<<"a", ":", " ", "f">>), StrItem(<<"g">>),
             NodeItem(1), IntItem(7)}

AddArgs == {<<>>} \cup {<<c>> : c \in AddItems}
               \cup {<<c, d>> : c \in AddItems, d \in AddItems}

AddKw == {NoKw, KwArgs(<<[k |-> <<"x">>, v |-> VInt(1)]>>),
          KwArgs(<<[k |-> <<"y">>, v |-> VInt(1)]>>)}

Configured(leaf, vi, vp) ==
    New(New(<<>>, leaf[1], leaf[2], <<>>, NoKw).h, <<"n">>, <<>>, <<>>,
        [NoKw EXCEPT !.valid_items = vi, !.valid_params = vp]).h

InitAdd ==
    /\ heap \in {Configured(leaf, vi, vp) :
                    leaf \in AddLeaves, vi \in ValidItemLists, vp \in ValidParamLists}
    /\ tmpl = <<>>
    /\ last = NoCall
    /\ ret = NoRet
    /\ steps = 0

AddCall ==
    /\ steps < MaxAdds
    /\ \E args \in AddArgs, kw \in AddKw : DoAdd(2, args, kw)

NextAdd == AddCall

SpecAdd == InitAdd /\ [][NextAdd]_vars

(***************************************************************************)
(* C2: a failed add leaves the node unchanged.  Whenever add raises, the   *)
(* node's arguments, children and configuration are what they were before  *)
(* the call, also when the call carried other valid children or arguments. *)
(* The claim as stated: violated, add applies the arguments and the        *)
(* children before the one that is rejected.                               *)
(***************************************************************************)
C2_FailedAddNoChange ==
    [][(last'.op = "add" /\ last'.err # "") => heap'[last'.self] = heap[last'.self]]_vars

(***************************************************************************)
(* C7, as stated: for a node whose validItems is V, add of a child fails   *)
(* with the invalid-item error exactly when the child's field name is not  *)
(* in V.  Violated by an aliased child.                                    *)
(***************************************************************************)
\* the latest call was add of the single child c, no arguments, on the node under test
AddedChild(c) == last.op = "add" /\ last.self = 2 /\ last.args = <<c>> /\ last.kw = NoKw

InList(list, x) == \E j \in 1..Len(list) : list[j] = x

C7_ValidByFieldName ==
    \A c \in AddItems :
        (AddedChild(c) /\ c.t # "int" /\ heap[2].valid_items.some) =>
            (last.err = ErrItem <=> ~InList(heap[2].valid_items.v, OtherNA(heap, c).name))

(***************************************************************************)
(* C7, amended: for a mutable, non-transparent node whose validItems is a  *)
(* list V of names, add of a child fails with the invalid-item error       *)
(* exactly when the child is not a member of V: a bare string when its     *)
(* text is not an element of V, a Node child when no element of V is equal *)
(* to it, which for a Node with a non-empty name means that its display    *)
(* identifier (alias if present, else name) is not in V.  With V empty     *)
(* every child is rejected; with validItems unset none is.                 *)
(***************************************************************************)
MemberOf(V, c) ==
    IF c.t = "str" THEN InList(V, c.s)
    ELSE IF c.t = "node"
    THEN IF heap[c.n].name # <<>> THEN InList(V, node_name(NodeNA(heap, c.n)))
         ELSE \E j \in 1..Len(V) : NodeEq(NodeNA(heap, c.n), NA(V[j], <<>>))
    ELSE FALSE

C7_ValidByMembership ==
    (last.op = "add" /\ last.self = 2 /\ last.err # ErrParam) =>
        /\ heap[2].valid_items.some =>
              (last.err = ErrItem <=>
                  \E i \in 1..Len(last.args) : ~MemberOf(heap[2].valid_items.v, last.args[i]))
        /\ (heap[2].valid_items.some /\ heap[2].valid_items.v = <<>> /\ last.args # <<>>) =>
              last.err = ErrItem
        /\ ~heap[2].valid_items.some => last.err # ErrItem

\* a Node child whose field name is in V is rejected for its alias
C7_Witness ==
    /\ AddedChild(NodeItem(1))
    /\ heap[2].valid_items = Some(<<<<"f">>>>)
    /\ NodeNA(heap, 1) = NA(<<"f">>, <<"a">>)
    /\ last.err = ErrItem

(***************************************************************************)
(* SpecUpdate: a.update(b).  Three leaf nodes are constructed (objects 1,  *)
(* 2 and 3), then a (object 4) holding strings and leaf 1, then b (object  *)
(* 5) holding strings and leaves 2 and 3; update is called on a with b.    *)
(***************************************************************************)
MaxUpdates == 1

UpdNames == {<<>>, <<"f">>}

UpdAliases == {<<>>, <<"x">>}

UpdLeafArgs == {<<>>, <<StrItem(<<"u">>)>>}

Arg(k, n) == [k |-> k, v |-> VInt(n)]

\* the leaf  alias: name(p: n) { args }
Leaf(h, name, alias, args, n) ==
    New(h, name, alias, args, IF n = 0 THEN NoKw ELSE KwArgs(<<Arg(<<"p">>, n)>>)).h

UpdChildrenA == {<<NodeItem(1)>>, <<StrItem(<<"g">>), NodeItem(1)>>,
                 <<NodeItem(1), StrItem(<<"x">>)>>}

UpdParamsA == {<<>>, <<Arg(<<"p">>, 1), Arg(<<"q">>, 1)>>}

UpdChildrenB == {<<NodeItem(2), NodeItem(3)>>, <<StrItem(<<"h">>), NodeItem(2)>>,
                 <<NodeItem(3), StrItem(<<"g">>)>>}

UpdParamsB == {<<>>, <<Arg(<<"q">>, 2)>>, <<Arg(<<"i", "d">>, 5), Arg(<<"p">>, 2)>>}

\* name, alias, children and value of p of a leaf
UpdLeaves(n) == UpdNames \X UpdAliases \X UpdLeafArgs \X {0, n}

\* the heap after the five constructions
UpdHeap(l1, l2, ca, pa, cb, pb) ==
    LET h1 == Leaf(<<>>, l1[1], l1[2], l1[3], l1[4])
        h2 == Leaf(h1, l2[1], l2[2], l2[3], l2[4])
        h3 == Leaf(h2, <<>>, <<"y">>, <<>>, 3)
        h4 == New(h3, <<"a">>, <<>>, ca, KwArgs(pa)).h
    IN  New(h4, <<"b">>, <<>>, cb, KwArgs(pb)).h

InitUpdate ==
    /\ \E l1 \in UpdLeaves(1), l2 \in UpdLeaves(2), ca \in UpdChildrenA, pa \in UpdParamsA,
          cb \in UpdChildrenB, pb \in UpdParamsB :
            heap = UpdHeap(l1, l2, ca, pa, cb, pb)
    /\ tmpl = <<>>
    /\ last = NoCall
    /\ ret = NoRet
    /\ steps = 0

Update ==
    /\ steps < MaxUpdates
    /\ DoUpdate(4, 5)

NextUpdate == Update

SpecUpdate == InitUpdate /\ [][NextUpdate]_vars

(***************************************************************************)
(* C9: update merge.  After a.update(b) on a mutable, non-transparent node *)
(* a, every argument key of b maps in a to b's value and keys only in a    *)
(* keep their value and position; for each child c of b, if a has an equal *)
(* child that is a Node and c is a Node then c is merged recursively into  *)
(* it, if a has no equal child then c is appended; children of a with no   *)
(* equal child in b keep their content and relative order.                 *)
(* The claim as stated: violated when two children of b that are not equal *)
(* to each other are both equal to one child of a, which needs a node with *)
(* an empty name (the equality of C8); the second merge then overwrites    *)
(* what the first one wrote.                                               *)
(***************************************************************************)
\* the children of a (in h) that no child of b is equal to
KeptChildren(h, a, b) ==
    SelectSeq(h[a].items,
              LAMBDA x : \A j \in 1..Len(items(h, b)) : ~ItemEq(h, x, items(h, b)[j]))

\* the content of the child x is in g what it was in h
SameContent(h, g, x) ==
    x.t = "node" => \A y \in Tree(h, x.n) : y <= Len(g) /\ g[y] = h[y]

RECURSIVE Merged(_, _, _, _)
\* g is h after b was merged into a
Merged(h, g, a, b) ==
    LET pa == h[a].params
        pb == params(h, b)
        ia == h[a].items
        ib == items(h, b)
        ga == g[a].items
        keep == KeptChildren(h, a, b)
    IN  /\ \A j \in 1..Len(pb) :
              HasKey(g[a].params, pb[j].k) /\ GetKey(g[a].params, pb[j].k) = pb[j].v
        /\ \A j \in 1..Len(pa) :
              ~HasKey(pb, pa[j].k) => (j <= Len(g[a].params) /\ g[a].params[j] = pa[j])
        /\ \A j \in 1..Len(ib) :
              LET c == ib[j]
                  e == IndexOf(h, ia, c)
              IN  /\ (e # 0 /\ ia[e].t = "node" /\ c.t = "node") =>
                        /\ InList(ga, ia[e])
                        /\ Merged(h, g, ia[e].n, c.n)
                  /\ e = 0 =>
                        \E k \in 1..Len(ga) :
                            /\ ga[k] = c
                            /\ \A m \in 1..Len(ga) : InList(keep, ga[m]) => m < k
        /\ SelectSeq(ga, LAMBDA x : InList(keep, x)) = keep
        /\ \A j \in 1..Len(keep) : SameContent(h, g, keep[j])

C9_UpdateMerges ==
    [][(/\ last'.op = "update"
        /\ last'.err = ""
        /\ ~heap[last'.self].constant
        /\ ~heap[last'.self].nude) =>
            Merged(heap, heap', last'.self, last'.other)]_vars

(***************************************************************************)
(* SpecNude: a transparent node.  A leaf (object 1) and the node C (object *)
(* 2) are constructed, then W = GraphQLNode('w', ..., _node=C) (object 3); *)
(* add is called on W with a child, an argument or both.                   *)
(***************************************************************************)
MaxNudeAdds == 2

NudeLeaves == {<<<<"f">>, <<>>>>, <<<<"g">>, <<"a">>>>}

NudeChildren == {<<>>, <<StrItem(<<"f">>)>>, <<StrItem(<<"g">>)>>,
                 <<StrItem(<<"a", ":", " ", "f">>)>>, <<NodeItem(1)>>}

NudeKw == {<<>>, <<Arg(<<"x">>, 1)>>, <<Arg(<<"y">>, 2)>>}

\* the heap after W = GraphQLNode('w', *cw, _node=C, **kw)
NudeHeap(leaf, cc, cw, kw) ==
    New(New(New(<<>>, leaf[1], leaf[2], <<>>, NoKw).h, <<"c">>, <<>>, cc, NoKw).h,
        <<"w">>, <<>>, cw, [KwArgs(kw) EXCEPT !.node = 2]).h

InitNude ==
    /\ \E leaf \in NudeLeaves, cc \in {<<>>, <<StrItem(<<"f">>)>>},
          cw \in {<<>>, <<StrItem(<<"g">>)>>}, kw \in {<<>>, <<Arg(<<"x">>, 3)>>} :
            heap = NudeHeap(leaf, cc, cw, kw)
    /\ tmpl = <<>>
    /\ last = NoCall
    /\ ret = NoRet
    /\ steps = 0

AddNude ==
    /\ steps < MaxNudeAdds
    /\ \E args \in NudeChildren, kw \in NudeKw : DoAdd(3, args, KwArgs(kw))

NextNude == AddNude

SpecNude == InitNude /\ [][NextNude]_vars

(***************************************************************************)
(* C10: transparent delegation.  For the transparent node W wrapping C,    *)
(* after any sequence of add calls on W, W still has exactly one child,    *)
(* which is C; the child passed to W.add is in C's child sequence and      *)
(* every argument passed to W.add is in C's argument map, so that          *)
(* W.items() and W.params() return them.                                   *)
(* The claim as stated: violated, add stores the arguments in W's own map, *)
(* which W.params() does not read.                                         *)
(***************************************************************************)
C10_Delegation ==
    (last.op = "add" /\ last.self = 3 /\ last.err = "") =>
        /\ heap[3].nude /\ heap[3].items = <<NodeItem(2)>>
        /\ \A i \in 1..Len(last.args) :
              InList(heap[2].items, last.args[i]) /\ InList(items(heap, 3), last.args[i])
        /\ \A i \in 1..Len(last.kw.kv) :
              /\ HasKey(heap[2].params, last.kw.kv[i].k)
              /\ GetKey(heap[2].params, last.kw.kv[i].k) = last.kw.kv[i].v
              /\ HasKey(params(heap, 3), last.kw.kv[i].k)
              /\ GetKey(params(heap, 3), last.kw.kv[i].k) = last.kw.kv[i].v

(***************************************************************************)
(* NodesQL and the AutoNode templates                                      *)
(***************************************************************************)
\* the NodesQL object itself: super().__init__(_name, *_top, self.alias_node,
\* _alias=_alias, **kwargs), r2 the outcome of constructing alias_node
NodesTop(h, r2, text, alias, node, top, kw) ==
    IF r2.err # "" THEN Raise(h, r2.err)
    ELSE Constructed(h,
            New(r2.h, text, alias, top \o <<NodeItem(Len(r2.h))>>, kw))

\* self.alias_node = GraphQLNode('nodes', _node=self.node, _alias=node_alias),
\* r1 the outcome of constructing self.node (the last object of r1.h, or the
\* given _node)
NodesAlias(h, r1, text, alias, node, node_alias, top, kw) ==
    IF r1.err # "" THEN Raise(h, r1.err)
    ELSE NodesTop(h,
            New(r1.h, <<"n", "o", "d", "e", "s">>, node_alias, <<>>,
                [NoKw EXCEPT !.node = IF node # 0 THEN node ELSE Len(r1.h)]),
            text, alias, node, top, kw)

\* node_alias when _node is given
NudeNodeAlias(h, node, nodes_alias) ==
    IF nodes_alias.some /\ nodes_alias.v # <<>> THEN nodes_alias.v
    ELSE node_name(NodeNA(h, node))

\* node_alias when the 'nodes' node is constructed from *args
NodeAlias(text, nodes_alias) ==
    IF nodes_alias.some THEN nodes_alias.v
    ELSE text \o <<"_", "n", "o", "d", "e", "s">>

\* the class and the self.node attribute of a constructed NodesQL object
AsNodesQL(r, node) ==
    IF r.err # "" THEN r
    ELSE [r EXCEPT !.h[Len(r.h)].cls = "NodesQL",
                   !.h[Len(r.h)].node = IF node # 0 THEN node ELSE Len(r.h) - 2]

\* NodesQL(_name, *args, _nodes_alias=nodes_alias, _alias=alias, _node=node,
\* _top=top, **kw): the new object is the last of the heap, before it come
\* self.node (when constructed) and self.alias_node
NewNodesQL(h, text, args, nodes_alias, alias, node, top, kw) ==
    AsNodesQL(
        IF node # 0
        THEN NodesAlias(h, Ok(h), text, alias, node, NudeNodeAlias(h, node, nodes_alias),
                        top, kw)
        ELSE NodesAlias(h, New(h, NodeAlias(text, nodes_alias), <<>>, args, NoKw),
                        text, alias, 0, NodeAlias(text, nodes_alias), top, kw),
        node)

\* NodesQL.add_to_nodes
add_to_nodes(h, self, args) ==
    Ok([h EXCEPT ![h[self].node].items = @ \o args])

\* base_class(...) for the classes a template derives from
NewOf(h, base, text, args, kw) ==
    IF base = "NodesQL"
    THEN NewNodesQL(h, text, args, None, <<>>, kw.node, <<>>, [kw EXCEPT !.node = 0])
    ELSE New(h, text, <<>>, args, kw)

\* DerivedNode.__init__: the node the producer describes, made constant
Derived(r) ==
    IF r.err # "" THEN r ELSE [r EXCEPT !.h[Len(r.h)].constant = TRUE]

NewTemplate(h, base, derived_name, derived_items, derived_params) ==
    Derived(NewOf(h, base, derived_name, derived_items, KwArgs(derived_params)))

\* the template record kept for __call__: _derived_items, _derived_params
Template(self, base, derived_items, derived_params) ==
    [self |-> self, base |-> base,
     derived_items |-> derived_items, derived_params |-> derived_params]

\* the for loop of __call__: the defaults of the keys the caller left out
CallKwargs(t, kw) ==
    [kw EXCEPT !.kv = @ \o SelectSeq(t.derived_params, LAMBDA d : ~HasKey(kw.kv, d.k))]

\* DerivedNode.__call__
call(h, t, args, kw) ==
    IF kw.node # 0 THEN NewOf(h, t.base, h[t.self].name, args, CallKwargs(t, kw))
    ELSE NewOf(h, t.base, h[t.self].name, t.derived_items \o args, CallKwargs(t, kw))

\* t(*args, **kw) for the template t
DoCall(t, args, kw) ==
    /\ steps < MaxSteps
    /\ ArgNodes(args, kw) \subseteq 1..Len(heap)
    /\ LET r == call(heap, t, args, kw)
       IN  Done(r, Call("call", t.self, 0, args, kw, r.err),
                IF r.err = "" THEN Len(r.h) ELSE 0)

\* self.add_to_nodes(*args)
DoAddToNodes(self, args) ==
    /\ steps < MaxSteps
    /\ ArgNodes(args, NoKw) \cup {self} \subseteq 1..Len(heap)
    /\ heap[self].cls = "NodesQL"
    /\ LET r == add_to_nodes(heap, self, args)
       IN  Done(r, Call("add_to_nodes", self, 0, args, NoKw, r.err), 0)

(***************************************************************************)
(* SpecTemplate: an AutoNode template and the nodes it returns.  A leaf    *)
(* (object 1) is constructed, then the template of a producer that returns *)
(* strings, the leaf or both, derived from GraphQLNode or from NodesQL;    *)
(* the template is invoked, and the public mutating operations are called  *)
(* on the template, on the returned nodes and on their child nodes.        *)
(***************************************************************************)
MaxTemplateSteps == 2

TemplateBases == {"GraphQLNode", "NodesQL"}

DerivedItems == {<<StrItem(<<"f">>)>>, <<NodeItem(1)>>, <<StrItem(<<"f">>), NodeItem(1)>>}

DerivedParams == {<<>>, <<Arg(<<"x">>, 1)>>}

ExtraItems == {<<>>, <<StrItem(<<"g">>)>>}

ExtraKw == {<<>>, <<Arg(<<"x">>, 2)>>}

\* the heap after the leaf and the template are constructed
TemplateHeap(base, ditems, dparams) ==
    NewTemplate(New(<<>>, <<"s">>, <<>>, <<>>, NoKw).h, base, <<"t">>, ditems, dparams).h

InitTemplate ==
    /\ \E base \in TemplateBases, ditems \in DerivedItems, dparams \in DerivedParams :
          /\ heap = TemplateHeap(base, ditems, dparams)
          /\ tmpl = <<Template(Len(heap), base, ditems, dparams)>>
    /\ last = NoCall
    /\ ret = NoRet
    /\ steps = 0

\* the template object
T == tmpl[1].self

Invoke ==
    /\ steps < MaxTemplateSteps
    /\ \E args \in ExtraItems, kw \in ExtraKw : DoCall(tmpl[1], args, KwArgs(kw))

\* a public mutating operation on the object self
Mutate(self) ==
    \/ \E args \in ExtraItems, kw \in ExtraKw :
          (args # <<>> \/ kw # <<>>) /\ DoAdd(self, args, KwArgs(kw))
    \/ \E args \in ExtraItems, kw \in ExtraKw :
          (args # <<>> \/ kw # <<>>) /\ DoAddToAll(self, args, KwArgs(kw))
    \/ \E other \in {1, T} : DoUpdate(self, other)
    \/ DoFirst(self, 1)
    \/ DoAfter(self, VStr(<<"c">>))
    \/ \E args \in ExtraItems : args # <<>> /\ DoAddToNodes(self, args)

MutateTemplate ==
    /\ steps < MaxTemplateSteps
    /\ Mutate(T)

\* the returned nodes and their child nodes
Instances == UNION {Tree(heap, x) : x \in (T + 1)..Len(heap)}

MutateInstance ==
    /\ steps < MaxTemplateSteps
    /\ \E self \in Instances : Mutate(self)

NextTemplate == Invoke \/ MutateTemplate \/ MutateInstance

SpecTemplate == InitTemplate /\ [][NextTemplate]_vars

(***************************************************************************)
(* C3: once a node is immutable (an auto-template instance), every public  *)
(* mutating operation called on it (add, add_to_all, update, first, after, *)
(* and add_to_nodes on a NodesQL template) fails with the immutable-node   *)
(* error and leaves the node's children and arguments unchanged.           *)
(* The claim as stated: violated, add_to_nodes does not test the flag.     *)
(***************************************************************************)
MutatingOps == {"add", "add_to_all", "update", "first", "after", "add_to_nodes"}

C3_ImmutableRejects ==
    [][(last'.op \in MutatingOps /\ heap[last'.self].constant) =>
          /\ last'.err = ErrConst
          /\ \A x \in Tree(heap, last'.self) : heap'[x] = heap[x]]_vars

(***************************************************************************)
(* C4: invoking a template returns a fresh mutable node that accepts add,  *)
(* seeded with the template's children followed by the extra children; and *)
(* no operation on the returned node or on its child nodes (add,           *)
(* add_to_all, update) changes the template's own serialization, also when *)
(* the template's producer returned Node children.                         *)
(* The claim as stated: violated, the returned node holds the very Node    *)
(* objects the producer returned, which the template holds too.            *)
(***************************************************************************)
\* the step is the invocation of the GraphQLNode template with the children args
Invoked(args) ==
    /\ last'.op = "call" /\ last'.err = "" /\ last'.args = args
    /\ tmpl[1].base = "GraphQLNode"

C4_TemplateIsolated ==
    [][/\ (last'.op = "call" /\ last'.err = "") =>
             /\ ret'.id \notin 1..Len(heap)
             /\ ~heap'[ret'.id].constant
       /\ \A args \in ExtraItems :
             Invoked(args) => heap'[ret'.id].items = tmpl[1].derived_items \o args
       /\ (last'.op = "add" /\ last'.self \in Instances /\ last'.self > T) =>
             last'.err # ErrConst
       /\ (last'.op \in {"add", "add_to_all", "update"} /\ last'.self \in Instances) =>
             repr(heap', T) = repr(heap, T)]_vars

(***************************************************************************)
(* parseql: the tokenizer and the parser.  They work on the reversed text; *)
(* position counts the characters not yet consumed.  The texts drawn here  *)
(* hold no backslash, so the escape alternatives of string_re never match. *)
(***************************************************************************)
SYNTAX_TOKEN == {<<"(">>, <<")">>, <<"{">>, <<"}">>, <<",">>, <<":">>}

\* what control_char_re removes
ControlSet == {"\t", "\r"}

\* sanitize_query
sanitize_query(query) ==
    Reverse(Join([i \in 1..Len(Split(query, "\n")) |->
                     SelectSeq(Strip(Split(query, "\n")[i]), LAMBDA c : c \notin ControlSet)],
                 <<" ">>))

\* what _get_stripped returns for text, stripped being text[to_remove:].strip()
Stripped(text, stripped) == [removed |-> Len(text) - Len(stripped), text |-> stripped]

\* a variant of _get_stripped that strips the text without removing the
\* first to_remove characters
get_stripped_whole(text, to_remove) == Stripped(text, Strip(text))

\* _get_stripped
get_stripped(text, to_remove) ==
    Stripped(text, Strip(SubSeq(text, to_remove + 1, Len(text))))

\* the length of the match of token_re at the start of query, 0 for no match
RECURSIVE WordLen(_)
WordLen(query) ==
    IF query # <<>> /\ Head(query) \in WordSet THEN 1 + WordLen(Tail(query)) ELSE 0

\* the characters string_re accepts between the quotes, from index i on
RECURSIVE StringBody(_, _)
StringBody(query, i) ==
    IF i <= Len(query) /\ query[i] \notin {"\"", "\\", "\n", "\r"}
    THEN StringBody(query, i + 1)
    ELSE i

\* the length of the match of string_re at the start of query, 0 for no match
StringLen(query) ==
    IF /\ query # <<>>
       /\ Head(query) = "\""
       /\ StringBody(query, 2) <= Len(query)
       /\ query[StringBody(query, 2)] = "\""
    THEN StringBody(query, 2)
    ELSE 0

\* what _get_next_token returns
Token(token, removed, query) == [token |-> token, removed |-> removed, query |-> query]

\* the token read, s what _get_stripped returns for the text behind it
TokenOf(token, removed, s) == Token(token, removed + s.removed, s.text)

\* _get_next_token once the query is stripped
NextTokenOf(query, removed) ==
    IF query = <<>> THEN Token(<<>>, removed, query)
    ELSE IF WordLen(query) > 0
    THEN TokenOf(Reverse(SubSeq(query, 1, WordLen(query))), removed,
                 get_stripped(query, WordLen(query)))
    ELSE IF StringLen(query) > 0
    THEN TokenOf(Reverse(SubSeq(query, 1, StringLen(query))),
                 removed, get_stripped(query, StringLen(query)))
    ELSE TokenOf(<<Head(query)>>, removed, get_stripped(query, 1))

\* _get_next_token
get_next_token(query) ==
    NextTokenOf(get_stripped(query, 0).text, get_stripped(query, 0).removed)

\* what _parse_params and _get_graphql_nodes return, or the exception raised
Parsed(h, nodes, prms, position, query) ==
    [h |-> h, err |-> "", nodes |-> nodes, params |-> prms,
     position |-> position, query |-> query]

ParseError(h, err, position) ==
    [h |-> h, err |-> err, nodes |-> <<>>, params |-> <<>>,
     position |-> position, query |-> <<>>]

ErrUnmatched == "SyntaxError: Unmatched token"

ErrMissing == "SyntaxError: Missing token"

ErrSeparator == "SyntaxError: Invalid separator"

ErrIdentifier == "SyntaxError: Invalid identifier"

ErrEnv == "ValueError: Environment variable is not defined"

\* env.get(name, default)
EnvGet(env, name, default) == IF HasKey(env, name) THEN GetKey(env, name) ELSE default

\* python's truth value of an argument value
ValueTruthy(v) ==
    IF v.t = "str" THEN v.s # <<>>
    ELSE IF v.t \in {"int", "bool"} THEN v.n # 0
    ELSE TRUE

\* the value of an identifier token: true, false or an enum
IdentValue(token) ==
    IF token = <<"t", "r", "u", "e">> THEN VBool(TRUE)
    ELSE IF token = <<"f", "a", "l", "s", "e">> THEN VBool(FALSE)
    ELSE VEnum(token)

\* the value of a string token
StringValue(value, env) ==
    IF StartsWith(value, <<"$">>) THEN EnvGet(env, Tail(value), VStr(<<>>))
    ELSE VStr(value)

RECURSIVE parse_params(_, _, _, _, _)
RECURSIVE ParamsLoop(_, _, _, _, _, _, _, _)

\* the next iteration of the while loop of _parse_params
ParamsNext(h, closing, env, prms, value, waiting_value, position, query) ==
    ParamsLoop(h, closing, env, prms, value, waiting_value, position,
               get_next_token(query))

\* value = GraphQLNode('', **items), n the outcome of the constructor
ParamsNode(n, closing, env, prms, position, query) ==
    IF n.err # "" THEN ParseError(n.h, n.err, position)
    ELSE ParamsNext(n.h, closing, env, prms, VNode(Len(n.h)), FALSE, position, query)

\* the branch of _parse_params for '}', r the outcome of the nested call
ParamsNested(r, closing, env, prms) ==
    IF r.err # "" THEN r
    ELSE ParamsNode(New(r.h, <<>>, <<>>, <<>>, KwArgs(r.params)),
                    closing, env, prms, r.position, r.query)

\* the branch of _parse_params for an identifier that is a value
ParamsIdent(h, closing, env, prms, position, token, query) ==
    IF StartsWith(query, <<"$">>)
    THEN IF ~ValueTruthy(EnvGet(env, token, VStr(<<>>)))
         THEN ParseError(h, ErrEnv, position)
         ELSE ParamsNext(h, closing, env, prms,
                         IdentValue(EnvGet(env, token, VStr(<<>>)).s), FALSE, position, query)
    ELSE ParamsNext(h, closing, env, prms, IdentValue(token), FALSE, position, query)

\* the body of the while loop of _parse_params, position already decremented
ParamsToken(h, closing, env, prms, value, waiting_value, position, token, query) ==
    IF token = closing THEN Parsed(h, <<>>, prms, position, query)
    ELSE IF waiting_value /\ token = <<"}">>
    THEN ParamsNested(parse_params(h, query, <<"{">>, position, env), closing, env, prms)
    ELSE IF token \in {<<"{">>, <<"(">>, <<")">>} THEN ParseError(h, ErrUnmatched, position)
    ELSE IF token = <<",">>
    THEN IF ~waiting_value THEN ParseError(h, ErrSeparator, position)
         ELSE ParamsNext(h, closing, env, prms, value, waiting_value, position, query)
    ELSE IF token = <<":">>
    THEN IF waiting_value THEN ParseError(h, ErrSeparator, position)
         ELSE ParamsNext(h, closing, env, prms, value, waiting_value, position, query)
    ELSE IF token = <<"$">>
    THEN IF waiting_value THEN ParseError(h, ErrSeparator, position)
         ELSE ParamsNext(h, closing, env, prms, value, FALSE, position, query)
    ELSE IF waiting_value /\ Head(token) = "\""
    THEN ParamsNext(h, closing, env, prms,
                    StringValue(RStrip(LStrip(token, {"\""}), {"\""}), env),
                    FALSE, position, query)
    ELSE IF waiting_value /\ IsDigit(token)
    THEN ParamsNext(h, closing, env, prms, VInt(TextToInt(token)), FALSE, position, query)
    ELSE IF IsIdentifier(token)
    THEN IF waiting_value
         THEN ParamsIdent(h, closing, env, prms, position, token, query)
         ELSE ParamsNext(h, closing, env, SetKey(prms, token, value), value, TRUE,
                         position, query)
    ELSE ParseError(h, ErrIdentifier, position)

\* the while loop of _parse_params, tk the token just read
ParamsLoop(h, closing, env, prms, value, waiting_value, position, tk) ==
    IF tk.token # <<>>
    THEN ParamsToken(h, closing, env, prms, value, waiting_value,
                     position - tk.removed, tk.token, tk.query)
    ELSE IF closing # <<>> \/ waiting_value THEN ParseError(h, ErrMissing, position)
    ELSE Parsed(h, <<>>, prms, position, tk.query)

\* _parse_params
parse_params(h, query, closing, position, env) ==
    ParamsLoop(h, closing, env, <<>>, VStr(<<>>), TRUE, position, get_next_token(query))

RECURSIVE get_graphql_nodes(_, _, _, _, _)
RECURSIVE NodesLoop(_, _, _, _, _, _, _, _, _)

\* the next iteration of the while loop of _get_graphql_nodes
NodesNext(h, closing, env, its, prms, nodes, prev_token, position, query) ==
    NodesLoop(h, closing, env, its, prms, nodes, prev_token, position,
              get_next_token(query))

\* a variant in which the children are handed over as bare strings
AsItemsText(nodes) == [i \in 1..Len(nodes) |-> StrItem(<<"f">>)]

\* the children a parsed node is constructed with
AsItems(nodes) == [i \in 1..Len(nodes) |-> NodeItem(nodes[i])]

\* nodes.insert(0, GraphQLNode(token, *items, **params)), n the outcome of
\* the constructor
NodesInsert(n, closing, env, nodes, token, position, query) ==
    IF n.err # "" THEN ParseError(n.h, n.err, position)
    ELSE NodesNext(n.h, closing, env, <<>>, <<>>, <<Len(n.h)>> \o nodes, token,
                   position, query)

\* the branch for an identifier, token with its alias if it has one
NodesNew(h, closing, env, its, prms, nodes, position, token, query) ==
    NodesInsert(New(h, token, <<>>, AsItems(its), KwArgs(prms)),
                closing, env, nodes, token, position, query)

\* the alias of an identifier: al the token read behind the ':'; its
\* characters are not taken off position
NodesIdentAlias(h, closing, env, its, prms, nodes, position, token, al) ==
    IF al.token = <<>> THEN ParseError(h, ErrSeparator, position)
    ELSE NodesNew(h, closing, env, its, prms, nodes, position,
                  al.token \o <<":", " ">> \o token, al.query)

\* the branch for an identifier
NodesIdent(h, closing, env, its, prms, nodes, position, token, query) ==
    IF StartsWith(query, <<":">>)
    THEN NodesIdentAlias(h, closing, env, its, prms, nodes,
                    position - get_stripped(query, 1).removed, token,
                    get_next_token(get_stripped(query, 1).text))
    ELSE NodesNew(h, closing, env, its, prms, nodes, position, token, query)

\* the branch for '}': items is what the nested call returns
NodesItems(r, closing, env, prms, nodes, token) ==
    IF r.err # "" THEN r
    ELSE NodesNext(r.h, closing, env, r.nodes, prms, nodes, token, r.position, r.query)

\* the branch for ')': params is what _parse_params returns
NodesParams(r, closing, env, its, nodes, token) ==
    IF r.err # "" THEN r
    ELSE NodesNext(r.h, closing, env, its, r.params, nodes, token, r.position, r.query)

\* the body of the while loop of _get_graphql_nodes, position already decremented
NodesToken(h, closing, env, its, prms, nodes, prev_token, position, token, query) ==
    IF token = <<",">>
    THEN IF prev_token \in SYNTAX_TOKEN THEN ParseError(h, ErrIdentifier, position)
         ELSE NodesNext(h, closing, env, its, prms, nodes, token, position, query)
    ELSE IF token = <<"}">>
    THEN NodesItems(get_graphql_nodes(h, query, <<"{">>, position, env),
                    closing, env, prms, nodes, token)
    ELSE IF token = <<")">>
    THEN NodesParams(parse_params(h, query, <<"(">>, position, env),
                     closing, env, its, nodes, token)
    ELSE IF token = closing THEN Parsed(h, nodes, <<>>, position, query)
    ELSE IF token \in {<<"{">>, <<"(">>} THEN ParseError(h, ErrUnmatched, position)
    ELSE IF IsIdentifier(token)
    THEN NodesIdent(h, closing, env, its, prms, nodes, position, token, query)
    ELSE ParseError(h, ErrIdentifier, position)

\* the end of _get_graphql_nodes: GraphQLNode('', *items, **params), n the
\* outcome of the constructor
NodesLast(n, nodes, position, query) ==
    IF n.err # "" THEN ParseError(n.h, n.err, position)
    ELSE Parsed(n.h, <<Len(n.h)>> \o nodes, <<>>, position, query)

\* the while loop of _get_graphql_nodes, tk the token just read
NodesLoop(h, closing, env, its, prms, nodes, prev_token, position, tk) ==
    IF tk.token # <<>>
    THEN NodesToken(h, closing, env, its, prms, nodes, prev_token,
                    position - tk.removed, tk.token, tk.query)
    ELSE IF closing # <<>> THEN ParseError(h, ErrMissing, position)
    ELSE IF its # <<>> \/ prms # <<>>
    THEN NodesLast(New(h, <<>>, <<>>, AsItems(its), KwArgs(prms)),
                   nodes, position, tk.query)
    ELSE Parsed(h, nodes, <<>>, position, tk.query)

\* _get_graphql_nodes
get_graphql_nodes(h, query, closing, position, env) ==
    NodesLoop(h, closing, env, <<>>, <<>>, <<>>, <<>>, position, get_next_token(query))

\* string_to_graphql: the nodes parsed are new objects of the heap
string_to_graphql(h, query, env) ==
    get_graphql_nodes(h, sanitize_query(query), <<>>, Len(sanitize_query(query)), env)

\* string_to_graphql(str(self), env); what is returned is the first node
\* parsed and its serialization
DoParse(self, env) ==
    /\ steps < MaxSteps
    /\ self \in 1..Len(heap)
    /\ LET r == string_to_graphql(heap, repr(heap, self), env)
       IN  /\ heap' = r.h
           /\ last' = Call("parse", self, 0, <<>>, NoKw, r.err)
           /\ ret' = IF r.err = "" /\ r.nodes # <<>>
                     THEN Ret(r.nodes[1], FALSE, repr(r.h, r.nodes[1]))
                     ELSE NoRet
           /\ steps' = steps + 1
           /\ UNCHANGED tmpl

(***************************************************************************)
(* SpecParse: the round trip of a tree.  A leaf (object 1) is constructed, *)
(* then the root (object 2) with up to two arguments and with a string,    *)
(* the leaf or both as children; its compact serialization is parsed.      *)
(***************************************************************************)
MaxParses == 1

ParseLeaves == {<<<<"g">>, <<>>, <<>>>>,
                <<<<"a", "l", ":", " ", "g">>, <<>>, <<>>>>,
                <<<<"g">>, <<>>, <<Arg(<<"a">>, 1)>>>>,
                <<<<"g">>, <<StrItem(<<"h">>)>>, <<>>>>}

ParseValues == {VStr(<<"s">>), VInt(12), VBool(TRUE), VEnum(<<"E">>)}

ParseParams ==
    {<<>>} \cup {<<[k |-> <<"a">>, v |-> v]>> : v \in ParseValues}
           \cup {<<[k |-> <<"a">>, v |-> v], [k |-> <<"b">>, v |-> w]>> :
                    v \in ParseValues, w \in ParseValues}

ParseChildren == {<<>>, <<StrItem(<<"f">>)>>, <<NodeItem(1)>>,
                  <<StrItem(<<"f">>), NodeItem(1)>>}

\* the heap after the leaf and the root are constructed
ParseHeap(leaf, children, kv) ==
    New(New(<<>>, leaf[1], <<>>, leaf[2], KwArgs(leaf[3])).h,
        <<"n">>, <<>>, children, KwArgs(kv)).h

InitParse ==
    /\ \E leaf \in ParseLeaves, children \in ParseChildren, kv \in ParseParams :
          /\ heap = ParseHeap(leaf, children, kv)
          /\ last = Call("new", 2, 0, children, KwArgs(kv), "")
    /\ tmpl = <<>>
    /\ ret = NoRet
    /\ steps = 0

Parse ==
    /\ steps < MaxParses
    /\ DoParse(2, <<>>)

NextParse == Parse

SpecParse == InitParse /\ [][NextParse]_vars

(***************************************************************************)
(* C1: round trip.  For every Node tree T built from named nodes, string   *)
(* or Node children and any number of arguments per node (string, integer, *)
(* boolean or enum values), parsing the compact serialization of T and     *)
(* serializing the first returned node reproduces the identical text:      *)
(* str(parse(str(T))[0]) = str(T).                                         *)
(* The claim as stated: violated by a node with two arguments, which the   *)
(* parser stores in the reverse of the order they are written in.          *)
(***************************************************************************)
C1_RoundTrip ==
    last.op = "parse" =>
        /\ last.err = ""
        /\ ret.id # 0
        /\ ret.out = repr(heap, last.self)

(***************************************************************************)
(* SpecWrap: the text of a transparent node.  A leaf (object 1) and the    *)
(* node C (object 2), with or without arguments and children, are          *)
(* constructed, then W = GraphQLNode(name, _node=C) (object 3), named,     *)
(* aliased or anonymous; add is called on W.                               *)
(***************************************************************************)
MaxWrapAdds == 1

WrapNames == {<<"w">>, <<>>, <<"a", ":", " ", "w">>}

WrapChildren == {<<>>, <<StrItem(<<"f">>)>>, <<StrItem(<<"f">>), NodeItem(1)>>}

WrapKw == {<<>>, <<Arg(<<"p">>, 1)>>}

\* the heap after W = GraphQLNode(name, _node=C, **kw)
WrapHeap(leaf, cc, ckw, name, kw) ==
    New(New(New(<<>>, leaf[1], leaf[2], <<>>, NoKw).h, <<"c">>, <<>>, cc, KwArgs(ckw)).h,
        name, <<>>, <<>>, [KwArgs(kw) EXCEPT !.node = 2]).h

InitWrap ==
    /\ \E leaf \in NudeLeaves, cc \in WrapChildren, ckw \in WrapKw,
          name \in WrapNames, kw \in WrapKw :
            heap = WrapHeap(leaf, cc, ckw, name, kw)
    /\ tmpl = <<>>
    /\ last = NoCall
    /\ ret = NoRet
    /\ steps = 0

AddWrap ==
    /\ steps < MaxWrapAdds
    /\ \E args \in NudeChildren, kw \in NudeKw : DoAdd(3, args, KwArgs(kw))

NextWrap == AddWrap

SpecWrap == InitWrap /\ [][NextWrap]_vars

(***************************************************************************)
(* C11: serialization of a transparent node.  A transparent node emits     *)
(* neither its own name or alias nor its own braces; its output is the     *)
(* rendering of its single wrapped child.                                  *)
(* The claim as stated: violated, str(W) is 'w { f }' where the wrapped    *)
(* child renders as 'c { f }'.                                             *)
(***************************************************************************)
C11_WrapperInvisible ==
    \A w \in 1..Len(heap) :
        heap[w].nude => repr(heap, w) = repr(heap, heap[w].items[1].n)

\* the name, alias and arguments a node shows: 'alias: name(k: v, ...)'
ShownField(h, x) ==
    (IF h[x].alias # <<>> THEN h[x].alias \o <<":", " ">> \o h[x].name ELSE h[x].name)
        \o (IF h[x].params # <<>> THEN <<"(">> \o params_to_string(h, x) \o <<")">>
            ELSE <<>>)

\* the compact renderings of the children of a node
ShownChildren(h, x) ==
    [i \in 1..Len(h[x].items) |->
        IF h[x].items[i].t = "node" THEN repr(h, h[x].items[i].n) ELSE h[x].items[i].s]

(***************************************************************************)
(* C11, amended: the compact text of a transparent node W is W's own name, *)
(* alias and arguments, an opening brace, the renderings of the children   *)
(* of the wrapped child and a closing brace; the name, alias, arguments    *)
(* and braces of the wrapped child are what is left out.                   *)
(***************************************************************************)
C11_WrappedInvisible ==
    \A w \in 1..Len(heap) :
        heap[w].nude =>
            repr(heap, w) =
                (IF ShownField(heap, w) = <<>> THEN <<"{">>
                 ELSE ShownField(heap, w) \o <<" ", "{">>)
                    \o <<" ">> \o Join(ShownChildren(heap, heap[w].items[1].n), <<" ">>)
                    \o <<" ", "}">>

\* W has been added to; the wrapped child has arguments and a node child
C11_Witness ==
    /\ last.op = "add" /\ last.err = ""
    /\ heap[3].nude
    /\ heap[2].params # <<>>
    /\ \E i \in 1..Len(heap[2].items) : heap[2].items[i].t = "node"
    /\ repr(heap, 3) # repr(heap, 2)

\* self.matching_gid(other); the text returned is ret.out
DoMatchingGid(self, other) ==
    /\ steps < MaxSteps
    /\ self \in 1..Len(heap)
    /\ heap' = heap
    /\ last' = Call("matching_gid", self, 0, <<other>>, NoKw, "")
    /\ ret' = Ret(0, FALSE, matching_gid(heap[self].gid_path, ValueText(other)))
    /\ steps' = steps + 1
    /\ UNCHANGED tmpl

(***************************************************************************)
(* SpecGid: global ids.  The node n = GraphQLNode('n', _gid_path=P) is     *)
(* object 1.  It is given an id together with a base path, an id alone,    *)
(* ordinary arguments or children, and asked whether a candidate matches.  *)
(***************************************************************************)
MaxGidSteps == 2

GidPaths == {<<>>, <<"a", "/", "b", "/", "c">>, <<"/", "x", "/", "/", "c">>}

GidIds == {VStr(<<"4", "2">>), VStr(<<"b", "/", "4", "2">>), VStr(<<"c", "4">>),
           VStr(GidMarker \o <<"x", "/", "1">>), VInt(7)}

GidCandidatePaths == {<<>>, <<"c", "/">>, <<"b", "/", "c", "/">>,
                      <<"a", "/", "b", "/", "c", "/">>, <<"x", "/">>,
                      <<"z", "/", "a", "/", "b", "/", "c", "/">>, <<"x", "/", "c", "/">>}

GidCandidates ==
    {VStr(m \o q \o l) : m \in {<<>>, GidMarker}, q \in GidCandidatePaths,
                         l \in {<<"1", "2">>, <<"1", "a">>, <<>>}}
        \cup {VInt(12)}

IdKey == <<"i", "d">>

InitGid ==
    /\ \E P \in GidPaths :
          heap = New(<<>>, <<"n">>, <<>>, <<>>, [NoKw EXCEPT !.gid_path = Some(P)]).h
    /\ tmpl = <<>>
    /\ last = NoCall
    /\ ret = NoRet
    /\ steps = 0

\* n.add(id=v, _gid_path=P)
AddIdWithPath ==
    /\ steps < MaxGidSteps
    /\ \E P \in GidPaths, v \in GidIds :
          DoAdd(1, <<>>, [KwArgs(<<[k |-> IdKey, v |-> v]>>) EXCEPT !.gid_path = Some(P)])

\* n.add(id=v)
AddId ==
    /\ steps < MaxGidSteps
    /\ \E v \in GidIds : DoAdd(1, <<>>, KwArgs(<<[k |-> IdKey, v |-> v]>>))

\* n.add('f'), n.add(x=1), n.add('f', x=1)
AddOrdinary ==
    /\ steps < MaxGidSteps
    /\ \E args \in {<<>>, <<StrItem(<<"f">>)>>}, kv \in {<<>>, <<Arg(<<"x">>, 1)>>} :
          /\ args # <<>> \/ kv # <<>>
          /\ DoAdd(1, args, KwArgs(kv))

\* n.matching_gid(candidate)
MatchGid ==
    /\ steps < MaxGidSteps
    /\ \E c \in GidCandidates : DoMatchingGid(1, c)

NextGid == AddIdWithPath \/ AddId \/ AddOrdinary \/ MatchGid

SpecGid == InitGid /\ [][NextGid]_vars

\* the index of the first segment the text starts with, Len(segs) + 1 if none
FirstStart(segs, text) ==
    IF \E k \in 1..Len(segs) : StartsWith(text, segs[k])
    THEN CHOOSE k \in 1..Len(segs) :
            /\ StartsWith(text, segs[k])
            /\ \A j \in 1..(k - 1) : ~StartsWith(text, segs[j])
    ELSE Len(segs) + 1

\* the slash-joined run of the non-empty segments of P before the first
\* segment the text starts with
RunBefore(P, text) ==
    Join(SubSeq(Segments(P), 1, FirstStart(Segments(P), text) - 1), <<"/">>)

\* the normalized form of the id v under the base path P
NormalizedId(P, v) ==
    IF StartsWith(ValueText(v), GidMarker) THEN v
    ELSE IF RunBefore(P, ValueText(v)) = <<>> THEN VStr(GidMarker \o ValueText(v))
    ELSE VStr(GidMarker \o RunBefore(P, ValueText(v)) \o <<"/">> \o ValueText(v))

\* the latest call was add(id=v, _gid_path=P) and did not raise
AddedIdWithPath ==
    /\ last.op = "add" /\ last.err = ""
    /\ last.kw.gid_path.some
    /\ HasKey(last.kw.kv, IdKey)

(***************************************************************************)
(* C12: gid normalization of the id argument, when id and base path are    *)
(* given in the same call.  An id that starts with 'gid://' is stored      *)
(* unchanged; any other id v is stored as 'gid://' + P + '/' + v where P   *)
(* is the slash-joined run of non-empty base-path segments that precede    *)
(* the first segment v starts with ('gid://' + v when P is empty).  Base   *)
(* path a/b/c maps 42 to gid://a/b/c/42 and b/42 to gid://a/b/42;          *)
(* normalizing an already normalized value returns it unchanged.           *)
(***************************************************************************)
C12_GidNormalized ==
    /\ AddedIdWithPath =>
          /\ HasKey(heap[last.self].params, IdKey)
          /\ GetKey(heap[last.self].params, IdKey)
                = NormalizedId(last.kw.gid_path.v, GetKey(last.kw.kv, IdKey))
          /\ get_gid(last.kw.gid_path.v, GetKey(heap[last.self].params, IdKey))
                = GetKey(heap[last.self].params, IdKey)
    /\ get_gid(<<"a", "/", "b", "/", "c">>, VStr(<<"4", "2">>))
          = VStr(GidMarker \o <<"a", "/", "b", "/", "c", "/", "4", "2">>)
    /\ get_gid(<<"a", "/", "b", "/", "c">>, VStr(<<"b", "/", "4", "2">>))
          = VStr(GidMarker \o <<"a", "/", "b", "/", "4", "2">>)

\* add(id='b/42', _gid_path='a/b/c') has stored 'gid://a/b/42'
C12_Witness ==
    /\ AddedIdWithPath
    /\ last.kw.gid_path.v = <<"a", "/", "b", "/", "c">>
    /\ GetKey(last.kw.kv, IdKey) = VStr(<<"b", "/", "4", "2">>)
    /\ GetKey(heap[1].params, IdKey) = VStr(GidMarker \o <<"a", "/", "b", "/", "4", "2">>)

\* the latest call was matching_gid; its candidate as text
Matched == last.op = "matching_gid"

Candidate == ValueText(last.args[1])

\* the candidate carries the 'gid://' prefix
Tagged == StartsWith(Candidate, GidMarker)

\* the segments of the candidate behind the prefix; the last of them and the
\* ones before it
CandidateSegments ==
    IF Tagged THEN Tail(Segments(Candidate)) ELSE Segments(Candidate)

LastSegment == CandidateSegments[Len(CandidateSegments)]

Preceding == SubSeq(CandidateSegments, 1, Len(CandidateSegments) - 1)

\* two lists of segments agree when read backward, as far as both reach
AgreeBackward(a, b) ==
    \A k \in 1..(IF Len(a) < Len(b) THEN Len(a) ELSE Len(b)) :
        a[Len(a) + 1 - k] = b[Len(b) + 1 - k]

(***************************************************************************)
(* C13: matching_gid(candidate) returns either the empty string or the     *)
(* candidate's last segment, and returns that segment only when it         *)
(* consists of digits and the candidate's preceding segments, read         *)
(* backward, agree with the node's base path read backward; a candidate    *)
(* that carries the 'gid://' prefix must supply every base-path segment,   *)
(* otherwise the result is empty; with an empty base path every candidate  *)
(* with a numeric last segment matches.  Candidates are an optional        *)
(* 'gid://' followed by slash-separated segments, or an integer.           *)
(***************************************************************************)
C13_MatchingGid ==
    Matched =>
        /\ ret.out = <<>> \/ (CandidateSegments # <<>> /\ ret.out = LastSegment)
        /\ ret.out # <<>> =>
              /\ IsDigit(LastSegment)
              /\ AgreeBackward(Preceding, Segments(heap[last.self].gid_path))
              /\ Tagged => Len(Preceding) >= Len(Segments(heap[last.self].gid_path))
        /\ (/\ Segments(heap[last.self].gid_path) = <<>>
            /\ CandidateSegments # <<>>
            /\ IsDigit(LastSegment)) => ret.out = LastSegment

\* a candidate with the prefix, a numeric last segment and a path that agrees
\* with the base path but is shorter: the result is empty
C13_Witness ==
    /\ Matched /\ Tagged
    /\ CandidateSegments # <<>>
    /\ IsDigit(LastSegment)
    /\ Preceding # <<>>
    /\ AgreeBackward(Preceding, Segments(heap[last.self].gid_path))
    /\ Len(Preceding) < Len(Segments(heap[last.self].gid_path))
    /\ ret.out = <<>>

(***************************************************************************)
(* C20: the gid base path of a node persists.  After a node is configured  *)
(* with base path P, any later add of ordinary arguments or children       *)
(* leaves P unchanged, so a later add(id=v) with v not starting with       *)
(* 'gid://' stores the id normalized against P, and matching_gid keeps     *)
(* matching against P.                                                     *)
(* The claim as stated: violated, every add that carries arguments and no  *)
(* _gid_path resets the base path to ''.                                   *)
(***************************************************************************)
C20_GidPathPersists ==
    [][(/\ last'.op = "add"
        /\ last'.err = ""
        /\ ~last'.kw.gid_path.some) =>
            /\ heap'[1].gid_path = heap[1].gid_path
            /\ HasKey(last'.kw.kv, IdKey) =>
                  GetKey(heap'[1].params, IdKey)
                      = NormalizedId(heap[1].gid_path, GetKey(last'.kw.kv, IdKey))]_vars

\* what string_to_graphql leaves behind: the nodes returned, the first of
\* them, and the position and remaining text of _get_graphql_nodes
ParseRet(r) ==
    [id |-> IF r.err = "" /\ r.nodes # <<>> THEN r.nodes[1] ELSE 0, b |-> FALSE,
     out |-> <<>>, nodes |-> r.nodes, position |-> r.position, query |-> r.query]

\* r the outcome of string_to_graphql(Concat(parts), env)
ParsedText(r, parts, env) ==
    /\ heap' = r.h
    /\ last' = Call("string_to_graphql", 0, 0,
                    [i \in 1..Len(parts) |-> StrItem(parts[i])], KwArgs(env), r.err)
    /\ ret' = ParseRet(r)
    /\ steps' = steps + 1
    /\ UNCHANGED tmpl

\* string_to_graphql(query, env), the query given in parts
DoParseText(parts, env) ==
    /\ steps < MaxSteps
    /\ ParsedText(string_to_graphql(heap, Concat(parts), env), parts, env)

(***************************************************************************)
(* SpecText: parsing a text.  The text is a field (name, alias), an        *)
(* argument list and a selection, each well or ill formed; the environment *)
(* defines x, defines it as the empty string or does not define it.        *)
(***************************************************************************)
MaxTexts == 1

TextHeads == {<<"n">>, <<"a", ":", " ", "n">>, <<"(", " ", ":", " ", "n">>}

TextArgs ==
    {<<>>,
     <<"(", "a", ":", " ", "1", ")">>,
     <<"(", "a", " ", "1", ")">>,
     <<"(", "a", ":", ":", " ", "1", ")">>,
     <<"(", "a", ":", " ", "1", " ", ":", ")">>,
     <<"(", "a", ":", " ", "\"", "s", "\"", ",", " ", "b", ":", " ", "E", ")">>,
     <<"(", "a", ":", " ", "1">>,
     <<"(", "a", ":", " ", "$", "x", ")">>,
     <<"(", "b", ":", " ", "2", ",", " ", "a", ":", " ", "$", "x", ")">>}

TextBodies == {<<>>, <<" ", "{", " ", "f", " ", "}">>,
               <<" ", "{", " ", "f", " ", "g", " ", "{", " ", "h", " ", "}", " ", "}">>,
               <<" ", "{", " ", "f">>}

TextEnvs == {<<>>, <<[k |-> <<"x">>, v |-> VStr(<<"v">>)]>>,
             <<[k |-> <<"x">>, v |-> VStr(<<>>)]>>}

\* the text names a variable
HasVariable(text) == \E i \in 1..Len(text) : text[i] = "$"

InitText ==
    /\ heap = <<>>
    /\ tmpl = <<>>
    /\ last = NoCall
    /\ ret = NoRet
    /\ steps = 0

ParseText ==
    /\ steps < MaxTexts
    /\ \E head \in TextHeads, args \in TextArgs, body \in TextBodies, env \in TextEnvs :
          /\ env = <<>> \/ HasVariable(args)
          /\ DoParseText(<<head, args, body>>, env)

NextText == ParseText

SpecText == InitText /\ [][NextText]_vars

\* the latest call was string_to_graphql and it returned
ParsedOk == last.op = "string_to_graphql" /\ last.err = ""

\* the node objects of the trees string_to_graphql returned
ParsedNodes == UNION {Tree(heap, ret.nodes[k]) : k \in 1..Len(ret.nodes)}

(***************************************************************************)
(* C14: every child in every node returned by string_to_graphql is a       *)
(* GraphQLNode, never a bare string, also for a bare identifier that has   *)
(* no arguments and no children; so add can be called on any parsed child. *)
(***************************************************************************)
C14_ChildrenAreNodes ==
    ParsedOk =>
        \A x \in ParsedNodes :
            \A i \in 1..Len(heap[x].items) :
                /\ heap[x].items[i].t = "node"
                /\ add(heap, heap[x].items[i].n, <<StrItem(<<"z">>)>>, NoKw).err = ""

\* a parsed node has a child that was written as a bare identifier
C14_Witness ==
    /\ ParsedOk
    /\ \E x \in ParsedNodes :
          \E i \in 1..Len(heap[x].items) :
              /\ heap[x].items[i].t = "node"
              /\ heap[heap[x].items[i].n].items = <<>>
              /\ heap[heap[x].items[i].n].params = <<>>

\* the latest call was string_to_graphql; the text it was given, its
\* argument list and its environment
ParsedAText == last.op = "string_to_graphql"

TextGiven == Concat([i \in 1..Len(last.args) |-> last.args[i].s])

ArgsGiven == last.args[2].s

BodyGiven == last.args[3].s

EnvGiven == last.kw.kv

IsSyntaxError(err) == err \in {ErrUnmatched, ErrMissing, ErrSeparator, ErrIdentifier}

\* argument lists in which a name is directly followed by its value
ColonlessArgs == {<<"(", "a", " ", "1", ")">>}

\* argument lists with a ':' that is not between a name and its value
StrayColonArgs == {<<"(", "a", ":", ":", " ", "1", ")">>,
                   <<"(", "a", ":", " ", "1", " ", ":", ")">>}

(***************************************************************************)
(* C16: in an argument list a ':' is required between an argument name and *)
(* its value: parsing an argument list in which a name is directly         *)
(* followed by its value without ':' (for example 'node(a 1)') fails with  *)
(* SyntaxError, and a ':' anywhere else in the list also fails with        *)
(* SyntaxError.                                                            *)
(* The claim as stated: violated, 'n(a 1)' and 'n(a:: 1)' parse as         *)
(* 'n(a: 1)'.                                                              *)
(***************************************************************************)
C16_ColonRequired ==
    (ParsedAText /\ ArgsGiven \in ColonlessArgs \cup StrayColonArgs) =>
        IsSyntaxError(last.err)

\* the brackets of a text outside its string literals are balanced and
\* properly nested; open holds the closers awaited, innermost first
RECURSIVE Balanced(_, _, _)
Balanced(text, open, inString) ==
    IF text = <<>> THEN open = <<>>
    ELSE IF inString THEN Balanced(Tail(text), open, Head(text) # "\"")
    ELSE IF Head(text) = "\"" THEN Balanced(Tail(text), open, TRUE)
    ELSE IF Head(text) = "(" THEN Balanced(Tail(text), <<")">> \o open, FALSE)
    ELSE IF Head(text) = "{" THEN Balanced(Tail(text), <<"}">> \o open, FALSE)
    ELSE IF Head(text) \in {")", "}"}
    THEN open # <<>> /\ Head(open) = Head(text) /\ Balanced(Tail(text), Tail(open), FALSE)
    ELSE Balanced(Tail(text), open, FALSE)

(***************************************************************************)
(* C17: bracket matching.  string_to_graphql succeeds only on text whose   *)
(* '(' ')' and '{' '}' outside string literals are balanced and properly   *)
(* nested; an opener with no closer, a closer with no opener, or a closer  *)
(* of the wrong kind each fail with SyntaxError and no tree is returned.   *)
(* The claim as stated: violated, in '( : n' the '(' is read as the alias  *)
(* of n and the text parses.                                               *)
(***************************************************************************)
C17_BracketsMatch ==
    (ParsedAText /\ ~Balanced(TextGiven, <<>>, FALSE)) =>
        /\ last.err # ""
        /\ last.err # ErrEnv => IsSyntaxError(last.err)
        /\ ret.nodes = <<>>

\* selections that are well formed
ClosedBodies == TextBodies \ {<<" ", "{", " ", "f">>}

(***************************************************************************)
(* C18: variable substitution.  For an argument value written $name, if    *)
(* name is a key of the environment the parse succeeds and the argument's  *)
(* value is taken from env[name], whatever that value is; the parse fails  *)
(* with the undefined-variable error exactly when name is not a key of the *)
(* environment.                                                            *)
(* The claim as stated: violated, a variable defined as the empty string   *)
(* is reported as undefined.                                               *)
(***************************************************************************)
C18_VariableSubstitution ==
    (ParsedAText /\ HasVariable(ArgsGiven) /\ BodyGiven \in ClosedBodies) =>
        /\ HasKey(EnvGiven, <<"x">>) =>
              /\ last.err = ""
              /\ ret.id # 0
              /\ HasKey(heap[ret.id].params, <<"a">>)
              /\ ValueText(GetKey(heap[ret.id].params, <<"a">>))
                    = ValueText(GetKey(EnvGiven, <<"x">>))
        /\ last.err = ErrEnv <=> ~HasKey(EnvGiven, <<"x">>)

(***************************************************************************)
(* C19: error position.  At every step of parsing the tracked position     *)
(* equals the number of characters of the sanitized text not yet consumed, *)
(* so the position carried by a SyntaxError is the offset of the offending *)
(* token in the sanitized text; this holds also after aliased fields       *)
(* ('alias: name') have been consumed, and the position is never negative. *)
(* The claim as stated: violated, the characters of an alias are not taken *)
(* off the position: after 'a: n' is consumed the position is 1 with no    *)
(* text left.                                                              *)
(***************************************************************************)
C19_PositionTracksText ==
    ParsedAText =>
        /\ ret.position >= 0
        /\ last.err = "" => ret.position = Len(ret.query)

(***************************************************************************)
(* SpecAddToAll: add_to_all.  A leaf (object 1), the child c (object 2)    *)
(* over a string or the leaf, and the node a (object 3) over strings, c    *)
(* and possibly the leaf are constructed; add_to_all is called on a.       *)
(***************************************************************************)
MaxAllAdds == 2

AllChildrenC == {<<>>, <<StrItem(<<"f">>)>>, <<NodeItem(1)>>}

AllChildrenA == {<<NodeItem(2)>>, <<StrItem(<<"f">>), NodeItem(2)>>,
                 <<NodeItem(2), NodeItem(1)>>,
                 <<StrItem(<<"s">>), NodeItem(2), StrItem(<<"t">>)>>}

AllParamsA == {<<>>, <<Arg(<<"x">>, 1)>>}

AllArgs == {<<>>, <<StrItem(<<"k">>)>>, <<StrItem(<<"f">>)>>}

AllKw == {<<>>, <<Arg(<<"y">>, 2)>>}

\* the heap after a = GraphQLNode('a', *ca, **pa)
AllHeap(leaf, cc, ca, pa) ==
    New(New(New(<<>>, leaf[1], leaf[2], <<>>, NoKw).h, <<"c">>, <<>>, cc, NoKw).h,
        <<"a">>, <<>>, ca, KwArgs(pa)).h

InitAddToAll ==
    /\ \E leaf \in NudeLeaves, cc \in AllChildrenC, ca \in AllChildrenA, pa \in AllParamsA :
          heap = AllHeap(leaf, cc, ca, pa)
    /\ tmpl = <<>>
    /\ last = NoCall
    /\ ret = NoRet
    /\ steps = 0

AddToAll ==
    /\ steps < MaxAllAdds
    /\ \E args \in AllArgs, kw \in AllKw : DoAddToAll(3, args, KwArgs(kw))

NextAddToAll == AddToAll

SpecAddToAll == InitAddToAll /\ [][NextAddToAll]_vars

\* the step is a call of add_to_all that returned
AddedToAll == last'.op = "add_to_all" /\ last'.err = ""

\* the node's own arguments and its child sequence are what they were
OwnUnchanged(x) ==
    /\ heap'[x].params = heap[x].params
    /\ heap'[x].items = heap[x].items

C21_NoEqualChildren ==
    \A x \in 1..Len(heap) :
        \A i \in 1..Len(heap[x].items) :
            \A j \in (i + 1)..Len(heap[x].items) :
                ~ItemEq(heap, heap[x].items[i], heap[x].items[j])

(***************************************************************************)
(* SpecOwn: ownership under update.  The heap is the one of InitUpdate     *)
(* without arguments on a and b: leaves 1, 2, 3, then a (object 4) and b   *)
(* (object 5), whose trees share no object.  a.update(b), a.add(child) and *)
(* a.add_to_all(child) are called in any order.                            *)
(***************************************************************************)
MaxOwnSteps == 2

OwnArgs == {<<StrItem(<<"k">>)>>}

InitOwn ==
    /\ \E l1 \in UpdLeaves(1), l2 \in UpdLeaves(2), ca \in UpdChildrenA, cb \in UpdChildrenB :
            heap = UpdHeap(l1, l2, ca, <<>>, cb, <<>>)
    /\ tmpl = <<>>
    /\ last = NoCall
    /\ ret = NoRet
    /\ steps = 0

OwnUpdate ==
    /\ steps < MaxOwnSteps
    /\ DoUpdate(4, 5)

OwnAdd ==
    /\ steps < MaxOwnSteps
    /\ \E args \in OwnArgs : DoAdd(4, args, NoKw)

OwnAddToAll ==
    /\ steps < MaxOwnSteps
    /\ \E args \in OwnArgs : DoAddToAll(4, args, NoKw)

NextOwn == OwnUpdate \/ OwnAdd \/ OwnAddToAll

SpecOwn == InitOwn /\ [][NextOwn]_vars

\* the node objects that are children in the tree of x
Owned(h, x) == Reach(h, Children(h, x), {})

(***************************************************************************)
(* C22: exclusive ownership under update.  In any sequence of add and      *)
(* update calls, a.update(b) never changes b's tree, and afterwards no     *)
(* node object is a child both in a's tree and in b's tree, so that later  *)
(* mutations of a (add, add_to_all, a second update) never change b's      *)
(* serialization.                                                          *)
(* The claim as stated: violated, update adds the child objects of b to a. *)
(***************************************************************************)
C22_ExclusiveOwnership ==
    [][/\ last'.op = "update" =>
            /\ \A y \in Tree(heap, 5) : heap'[y] = heap[y]
            /\ last'.err = "" => Owned(heap', 4) \cap Owned(heap', 5) = {}
       /\ last'.op \in {"add", "add_to_all", "update"} => repr(heap', 5) = repr(heap, 5)]_vars

\* the part of C22 on b's tree alone: a.update(b) leaves every object of b's tree as it was
C22_UpdateKeepsOther ==
    [][last'.op = "update" => \A y \in Tree(heap, 5) : heap'[y] = heap[y]]_vars

\* the part of C22 on sharing alone
C22_NoSharedChild ==
    [][(last'.op = "update" /\ last'.err = "") =>
            Owned(heap', 4) \cap Owned(heap', 5) = {}]_vars

\* the part of C22 on later mutations alone
C22_OtherSerialization ==
    [][last'.op \in {"add", "add_to_all", "update"} => repr(heap', 5) = repr(heap, 5)]_vars

\* the argument names of an argument list, in the order in which they are written
WrittenKeys(text) ==
    LET at == SelectSeq([i \in 1..Len(text) |-> i],
                        LAMBDA i : i < Len(text) /\ text[i] \in LetterSet /\ text[i + 1] = ":")
    IN  [j \in 1..Len(at) |-> <<text[at[j]]>>]

\* the keys of an argument map, in its order
KeysOf(prms) == [j \in 1..Len(prms) |-> prms[j].k]

(***************************************************************************)
(* C23: the parser keeps argument order.  For text with an argument list   *)
(* of two or more arguments, the argument map of the parsed node holds the *)
(* keys in the left-to-right order in which they are written, so that      *)
(* serializing the parsed node emits the arguments in the order of the     *)
(* input.                                                                  *)
(* The claim as stated: violated, the parsed map holds the keys in the     *)
(* reverse order.                                                          *)
(***************************************************************************)
C23_ArgumentOrder ==
    (ParsedOk /\ Len(WrittenKeys(ArgsGiven)) >= 2) =>
        /\ ret.nodes # <<>>
        /\ KeysOf(heap[ret.nodes[1]].params) = WrittenKeys(ArgsGiven)

\* what the code does: the keys are held in the reverse of the written order
C23_ArgumentOrderReversed ==
    (ParsedOk /\ Len(WrittenKeys(ArgsGiven)) >= 2) =>
        /\ ret.nodes # <<>>
        /\ KeysOf(heap[ret.nodes[1]].params) = Reverse(WrittenKeys(ArgsGiven))

\* self.pretty(indentation); the text returned is ret.out
DoPretty(self, indentation) ==
    /\ steps < MaxSteps
    /\ self \in 1..Len(heap)
    /\ heap' = heap
    /\ last' = Call("pretty", self, 0, <<IntItem(indentation)>>, NoKw, "")
    /\ ret' = Ret(0, FALSE, pretty(heap, self, indentation))
    /\ steps' = steps + 1
    /\ UNCHANGED tmpl

(***************************************************************************)
(* SpecPretty: multi-line output.  c (object 1), b (object 2) and a        *)
(* (object 3) are constructed with string children and with the node       *)
(* before them as a child; pretty is called on a with an indent step.      *)
(***************************************************************************)
MaxPretty == 1

MaxIndent == 3

PrettyChildrenC == {<<>>, <<StrItem(<<"z">>)>>}

PrettyChildrenB == {<<StrItem(<<"y">>)>>, <<NodeItem(1)>>, <<StrItem(<<"y">>), NodeItem(1)>>}

PrettyChildrenA == {<<StrItem(<<"x">>)>>, <<NodeItem(2)>>, <<StrItem(<<"x">>), NodeItem(2)>>,
                    <<NodeItem(2), StrItem(<<"x">>)>>}

PrettyParams == {NoKw, KwArgs(<<Arg(<<"p">>, 1)>>)}

PrettyHeap(cc, cb, ca, kw) ==
    LET h1 == New(<<>>, <<"c">>, <<>>, cc, NoKw).h
        h2 == New(h1, <<"b">>, <<>>, cb, kw).h
    IN  New(h2, <<"a">>, <<>>, ca, NoKw).h

InitPretty ==
    /\ \E cc \in PrettyChildrenC, cb \in PrettyChildrenB, ca \in PrettyChildrenA,
          kw \in PrettyParams :
            heap = PrettyHeap(cc, cb, ca, kw)
    /\ tmpl = <<>>
    /\ last = NoCall
    /\ ret = NoRet
    /\ steps = 0

Pretty ==
    /\ steps < MaxPretty
    /\ \E indentation \in 1..MaxIndent : DoPretty(3, indentation)

NextPretty == Pretty

SpecPretty == InitPretty /\ [][NextPretty]_vars

\* the number of spaces a line starts with
RECURSIVE LeadingSpaces(_)
LeadingSpaces(line) ==
    IF line # <<>> /\ Head(line) = " " THEN 1 + LeadingSpaces(Tail(line)) ELSE 0

\* the nesting depth of each line of the multi-line output of x, x at depth d:
\* the line of x, the lines of its children one level deeper, its closing brace
RECURSIVE LineDepths(_, _, _)
LineDepths(h, x, d) ==
    IF h[x].items = <<>> THEN <<d>>
    ELSE <<d>>
         \o Concat([i \in 1..Len(h[x].items) |->
                       IF h[x].items[i].t = "node" THEN LineDepths(h, h[x].items[i].n, d + 1)
                       ELSE <<d + 1>>])
         \o <<d>>

\* every line of out starts with exactly depth * s spaces
Indented(out, depths, s) ==
    LET lines == Split(out, "\n")
    IN  /\ Len(lines) = Len(depths)
        /\ \A i \in 1..Len(lines) : LeadingSpaces(lines[i]) = depths[i] * s

(***************************************************************************)
(* C24: indentation.  In the multi-line output pretty(s), for every indent *)
(* step s >= 1, each line of a child at nesting depth d (root at depth 0)  *)
(* starts with exactly d*s spaces, for string children and node children   *)
(* alike, and each closing brace is indented like the line that opened it. *)
(* The claim as stated: violated for every step other than 2.              *)
(***************************************************************************)
C24_Indentation ==
    last.op = "pretty" =>
        Indented(ret.out, LineDepths(heap, last.self, 0), last.args[1].n)

\* what the code does for the default step
C24_IndentationStepTwo ==
    (last.op = "pretty" /\ last.args[1].n = 2) =>
        Indented(ret.out, LineDepths(heap, last.self, 0), 2)

(***************************************************************************)
(* SpecToken: the token loop of _parse_params and _get_graphql_nodes,      *)
(*     token, removed, query = _get_next_token(query)                      *)
(*     while token: ...; token, removed, query = _get_next_token(query)    *)
(* on every text of at most MaxTokenLen characters of TokenChars.          *)
(* ret.query is the text that remains, ret.out the token read last.        *)
(***************************************************************************)
MaxTokenLen == 3

\* one call for each character and the call that returns the empty token
MaxTokens == MaxTokenLen + 1

TokenChars == {" ", "a", "\"", "(", ":"}

TokenRet(t) == [id |-> 0, b |-> FALSE, out |-> t.token, removed |-> t.removed, query |-> t.query]

InitToken ==
    /\ heap = <<>>
    /\ tmpl = <<>>
    /\ last = NoCall
    /\ \E n \in 0..MaxTokenLen : \E text \in [1..n -> TokenChars] :
            ret = TokenRet(Token(<<>>, 0, text))
    /\ steps = 0

\* token, removed, query = _get_next_token(query), while the token read before is not empty
NextToken ==
    /\ steps < MaxTokens
    /\ last.op = "init" \/ ret.out # <<>>
    /\ last' = Call("get_next_token", 0, 0, <<StrItem(ret.query)>>, NoKw, "")
    /\ ret' = TokenRet(get_next_token(ret.query))
    /\ steps' = steps + 1
    /\ UNCHANGED <<heap, tmpl>>

SpecToken == InitToken /\ [][NextToken]_vars

\* the loop is a single thread of control: it runs on until it leaves
SpecTokenFair == SpecToken /\ WF_vars(NextToken)

\* the text the tokenizer was called on
TokenInput == last.args[1].s

Blank(text) == \A i \in 1..Len(text) : text[i] \in SpaceSet

\* what a call of the tokenizer returned, against the text it was given
Consumes ==
    /\ ret.removed + Len(ret.query) = Len(TokenInput)
    /\ TokenInput # <<>> => ret.removed >= 1
    /\ ret.out = <<>> <=> Blank(TokenInput)

\* the loop has read the empty token and is left
LoopLeft == last.op = "get_next_token" /\ ret.out = <<>>

(***************************************************************************)
(* C25: parsing terminates on every finite input.  Each call of the        *)
(* tokenizer on non-empty remaining text consumes at least one character   *)
(* and returns charsConsumed with charsConsumed + len(rest) = len(input),  *)
(* and returns the empty token only when no non-blank text remains; hence  *)
(* the token loop is left after at most one call per character and one     *)
(* more, and string_to_graphql either returns a node list or raises.       *)
(***************************************************************************)
C25_ParsingTerminates ==
    /\ [](last.op = "get_next_token" => Consumes)
    /\ <>LoopLeft

\* a call on text that starts and goes on with non-blank text: a token and the blanks
\* behind it are consumed, text remains
C25_Witness ==
    /\ last.op = "get_next_token"
    /\ ret.out # <<>>
    /\ ret.removed > Len(ret.out)
    /\ ret.query # <<>>

====
